---- MODULE Spec2Model ----
(***************************************************************************)
(* A model of the PPL compiler front-end (gavrilikhin-d/ppl): the module's *)
(* two-level function index, the monomorphizer, destructor insertion and   *)
(* the convertibility relation of the type checker.                        *)
(*                                                                         *)
(* Every part of the compiler is a sub-machine with its own specification  *)
(* (SpecIndex, SpecMono, SpecDtor, SpecConv); the variables of the other   *)
(* parts stay at their initial value.                                      *)
(***************************************************************************)
EXTENDS Naturals, Sequences, FiniteSets, TLC

VARIABLES
    functions,   \* ModuleData::functions: IndexMap<Format, IndexMap<Name, Function>>
    idxLast,     \* the function handed to the last insert_function / define_function
    idxHit,      \* TRUE when the last insert/define found its pair already present
    idxOps,      \* number of insert/define calls made so far
    idxPanic     \* TRUE once define_function unwrapped a missing bucket

idxVars == <<functions, idxLast, idxHit, idxOps, idxPanic>>

VARIABLES
    convCtx,     \* canonical names of the functions the surrounding context holds
    convFrom,    \* the type a convertibility request converts from
    convTo,      \* the type it converts to
    convResult,  \* "none" before the check; then "true", "false", "NotImplemented", "abort"
    convPc       \* "idle" (another sub-machine runs), "ready", "done"

convVars == <<convCtx, convFrom, convTo, convResult, convPc>>

VARIABLES
    dtorCtx,        \* canonical names of the functions the context holds
    dtorFunctions,  \* the bodies of the module's functions
    dtorInstances,  \* the bodies of the instances in the monomorphized list
    dtorStatements, \* ModuleData::statements
    dtorPc          \* "idle", "ready" (lowered) or "done" (destructors inserted)

dtorVars == <<dtorCtx, dtorFunctions, dtorInstances, dtorStatements, dtorPc>>

VARIABLES
    monoModule,  \* the module: statements, variables, functions, monomorphized list
    monoPrev,    \* the module as it was before the last run of the monomorphizer
    monoSource,  \* the statements of the module as lowered
    monoRuns     \* runs of the monomorphizer so far

monoVars == <<monoModule, monoPrev, monoSource, monoRuns>>

VARIABLES
    diffPattern,   \* the type diff is called on
    diffConcrete,  \* the target type
    diffResult,    \* the HashMap<Type, Type> returned, as a function
    diffPc         \* "idle", "ready" or "done"

diffVars == <<diffPattern, diffConcrete, diffResult, diffPc>>

VARIABLES
    lowSource,  \* the top-level statements of the ast::Module
    lowModule,  \* the module of the lowering context
    lowErrors,  \* the errors lowering reported
    lowResult   \* "none" (not lowered), "ok", "err" or "abort" (a panic)

lowVars == <<lowSource, lowModule, lowErrors, lowResult>>

VARIABLES
    ctxVariables,  \* FunctionContext::variables, the locals declared so far
    ctxName,       \* the name last looked up, "" before the first lookup
    ctxFound       \* the result of the last lookup, <<declaration>> or <<>>

ctxVars == <<ctxVariables, ctxName, ctxFound>>

VARIABLES
    lexer,      \* the lexer: a FullSourceLexer or an InteractiveLexer
    lexResult   \* the last operation on the lexer and what it returned

lexVars == <<lexer, lexResult>>

VARIABLES
    lockInput,  \* the function that is defined, its instances and calls
    lockTrace,  \* the lock operations of the handler, in order
    lockPc      \* "idle", "ready" or "done"

lockVars == <<lockInput, lockTrace, lockPc>>

vars == <<idxVars, convVars, dtorVars, monoVars, diffVars, lowVars, ctxVars, lexVars, lockVars>>

\* what an operation of one component leaves alone
notIdx  == <<convVars, dtorVars, monoVars, diffVars, lowVars, ctxVars, lexVars, lockVars>>
notConv == <<idxVars, dtorVars, monoVars, diffVars, lowVars, ctxVars, lexVars, lockVars>>
notDtor == <<idxVars, convVars, monoVars, diffVars, lowVars, ctxVars, lexVars, lockVars>>
notMono == <<idxVars, convVars, dtorVars, diffVars, lowVars, ctxVars, lexVars, lockVars>>
notDiff == <<idxVars, convVars, dtorVars, monoVars, lowVars, ctxVars, lexVars, lockVars>>
notLow  == <<idxVars, convVars, dtorVars, monoVars, diffVars, ctxVars, lexVars, lockVars>>
notCtx  == <<idxVars, convVars, dtorVars, monoVars, diffVars, lowVars, lexVars, lockVars>>
notLex  == <<idxVars, convVars, dtorVars, monoVars, diffVars, lowVars, ctxVars, lockVars>>
notLock == <<idxVars, convVars, dtorVars, monoVars, diffVars, lowVars, ctxVars, lexVars>>

(***************************************************************************)
(* Types (hir/types.rs).  A type is a record                               *)
(*   k : "Class" | "Trait" | "Self" | "Generic" | "Function" | "Unknown"   *)
(*   n : basename of a class, name of a trait or generic, trait of Self    *)
(*   a : generic parameters of a class; <<constraint>> or <<>> of a        *)
(*       generic; parameters followed by the return type of a function     *)
(*   s : TRUE for a class with specialization_of = Some(original)          *)
(*   m : members of a class, each [name, ty]                               *)
(***************************************************************************)
Class(n)            == [k |-> "Class", n |-> n, a |-> <<>>, s |-> FALSE, m |-> <<>>]
ClassOf(n, ps)      == [k |-> "Class", n |-> n, a |-> ps, s |-> TRUE, m |-> <<>>]
GenericClass(n, ps) == [k |-> "Class", n |-> n, a |-> ps, s |-> FALSE, m |-> <<>>]
Trait(n)            == [k |-> "Trait", n |-> n, a |-> <<>>, s |-> FALSE, m |-> <<>>]
SelfType(n)         == [k |-> "Self", n |-> n, a |-> <<>>, s |-> FALSE, m |-> <<>>]
GenericType(n)      == [k |-> "Generic", n |-> n, a |-> <<>>, s |-> FALSE, m |-> <<>>]
GenericWith(n, c)   == [k |-> "Generic", n |-> n, a |-> <<c>>, s |-> FALSE, m |-> <<>>]
FunctionType(ps, r) == [k |-> "Function", n |-> "", a |-> Append(ps, r), s |-> FALSE, m |-> <<>>]
Unknown             == [k |-> "Unknown", n |-> "", a |-> <<>>, s |-> FALSE, m |-> <<>>]

Integer == Class("Integer")
String  == Class("String")

\* Type::generics
Generics(t) == IF t.k = "Class" THEN t.a ELSE <<>>

\* ClassData::is_any_reference / Type::is_any_reference: the builtin tag of the
\* class is Reference or ReferenceMut (the tag is the class's name, declare.rs:231)
IsAnyReference(t) == t.k = "Class" /\ t.n \in {"Reference", "ReferenceMut"}

\* Type::without_ref
WithoutRef(t) == IF ~IsAnyReference(t) THEN t ELSE Generics(t)[1]

RECURSIVE JoinNames(_, _)
RECURSIVE TypeName(_)
\* Named for Type (ClassData::name, FunctionTypeBuilder::build_name)
TypeName(t) ==
    CASE t.k = "Class" ->
           IF t.a = <<>> THEN t.n ELSE t.n \o "<" \o JoinNames(t.a, ", ") \o ">"
      [] t.k = "Trait" -> t.n
      [] t.k = "Self" -> "Self"
      [] t.k = "Generic" -> t.n
      [] t.k = "Function" ->
           "(" \o JoinNames(SubSeq(t.a, 1, Len(t.a) - 1), ", ") \o ") -> "
               \o TypeName(t.a[Len(t.a)])
      [] OTHER -> "Unknown"
\* the names of the types of ts joined by sep
JoinNames(ts, sep) ==
    IF ts = <<>> THEN ""
    ELSE IF Len(ts) = 1 THEN TypeName(ts[1])
    ELSE TypeName(ts[1]) \o sep \o JoinNames(Tail(ts), sep)

(***************************************************************************)
(* Function names (hir/declarations/function.rs).  A name part is          *)
(* [text |-> s] or [param |-> name, ty |-> type].                          *)
(***************************************************************************)
Text(s)      == [kind |-> "Text", text |-> s, ty |-> Unknown]
Param(n, ty) == [kind |-> "Parameter", text |-> n, ty |-> ty]

RECURSIVE build_name_format(_)
\* FunctionDeclarationBuilder::build_name_format
build_name_format(parts) ==
    IF parts = <<>> THEN ""
    ELSE LET head == IF parts[1].kind = "Text" THEN parts[1].text ELSE "<>"
         IN IF Len(parts) = 1 THEN head
            ELSE head \o " " \o build_name_format(Tail(parts))

RECURSIVE build_name(_)
\* Function::build_name
build_name(parts) ==
    IF parts = <<>> THEN ""
    ELSE LET head == IF parts[1].kind = "Text" THEN parts[1].text
                     ELSE "<:" \o TypeName(parts[1].ty) \o ">"
         IN IF Len(parts) = 1 THEN head
            ELSE head \o " " \o build_name(Tail(parts))

(***************************************************************************)
(* The two-level function index (hir/module.rs).  An IndexMap is the       *)
(* sequence of its [key, val] entries in insertion order.                  *)
(***************************************************************************)
HasKey(map, key) == \E i \in 1..Len(map) : map[i].key = key

IndexOfKey(map, key) == CHOOSE i \in 1..Len(map) : map[i].key = key

\* IndexMap::get
MapGet(map, key) == map[IndexOfKey(map, key)].val

\* IndexMap::insert: replaces the value of a present key in place, appends otherwise
IndexMapInsert(map, key, val) ==
    IF HasKey(map, key)
    THEN [map EXCEPT ![IndexOfKey(map, key)] = [key |-> key, val |-> val]]
    ELSE Append(map, [key |-> key, val |-> val])

\* a function as the index sees it: its name parts and its body
Fn(parts, body) == [name_parts |-> parts, body |-> body]

\* Function::name_format and Named::name: cached by the builder from the name parts
name_format(f) == build_name_format(f.name_parts)
name(f) == build_name(f.name_parts)

\* a slip of insert_function: the bucket is a list that is pushed to
InsertFunctionPush(index, f) ==
    LET fmt == name_format(f)
        withBucket == IF HasKey(index, fmt) THEN index
                      ELSE Append(index, [key |-> fmt, val |-> <<>>])
        i == IndexOfKey(withBucket, fmt)
    IN [withBucket EXCEPT ![i].val = Append(@, [key |-> name(f), val |-> f])]

\* ModuleData::insert_function
InsertFunction(index, f) ==
    LET fmt == name_format(f)
        \* entry(format).or_insert_with(IndexMap::new)
        withBucket == IF HasKey(index, fmt) THEN index
                      ELSE Append(index, [key |-> fmt, val |-> <<>>])
        i == IndexOfKey(withBucket, fmt)
    IN [withBucket EXCEPT ![i].val = IndexMapInsert(@, name(f), f)]

\* ModuleData::define_function, when get_mut(&format) is Some
DefineFunction(index, f) ==
    LET i == IndexOfKey(index, name_format(f))
    IN [index EXCEPT ![i].val = IndexMapInsert(@, name(f), f)]

\* whether the index holds an entry for the pair of f
HasPair(index, f) ==
    /\ HasKey(index, name_format(f))
    /\ HasKey(MapGet(index, name_format(f)), name(f))

\* ModuleData::iter_functions
RECURSIVE iter_functions(_)
iter_functions(index) ==
    IF index = <<>> THEN <<>>
    ELSE [i \in 1..Len(index[1].val) |-> index[1].val[i].val]
             \o iter_functions(Tail(index))

\* the functions a program declares and defines: three name formats, two of
\* them overloaded on the parameter type, each as a declaration (empty body)
\* and with two different bodies
IndexNames ==
    { <<Text("print"), Param("x", Integer)>>,
      <<Text("print"), Param("x", String)>>,
      <<Param("a", Integer), Text("plus"), Param("b", Integer)>>,
      <<Param("a", String), Text("plus"), Param("b", String)>>,
      <<Text("main")>> }

IndexBodies == { <<>>, <<"return 1">>, <<"return 2">> }

IndexFunctions == { Fn(p, b) : p \in IndexNames, b \in IndexBodies }

\* number of insert/define calls explored
MaxIndexOps == 3

\* the state of the function index before any insertion
IndexIdle ==
    /\ functions = <<>>
    /\ idxLast = <<>>
    /\ idxHit = FALSE
    /\ idxOps = 0
    /\ idxPanic = FALSE

\* no convertibility request is being made
ConvIdle ==
    /\ convCtx = {}
    /\ convFrom = Unknown
    /\ convTo = Unknown
    /\ convResult = "none"
    /\ convPc = "idle"

\* no module is waiting for destructor insertion
DtorIdle ==
    /\ dtorCtx = {}
    /\ dtorFunctions = <<>>
    /\ dtorInstances = <<>>
    /\ dtorStatements = <<>>
    /\ dtorPc = "idle"

\* a module without statements or functions, never monomorphized
MonoIdle ==
    /\ monoModule = [statements |-> <<>>, variables |-> <<>>, functions |-> <<>>,
                     holders |-> <<>>, monomorphized_functions |-> <<>>,
                     stack |-> 0, overflow |-> FALSE]
    /\ monoPrev = monoModule
    /\ monoSource = <<>>
    /\ monoRuns = 0

\* diff has not been called
DiffIdle ==
    /\ diffPattern = Unknown
    /\ diffConcrete = Unknown
    /\ diffResult = <<>>
    /\ diffPc = "idle"

\* no function context exists
CtxIdle ==
    /\ ctxVariables = <<>>
    /\ ctxName = ""
    /\ ctxFound = <<>>

\* no lexer exists
LexIdle ==
    /\ lexer = [kind |-> "none", source |-> <<>>, lines |-> <<>>, inner |-> <<0, 0>>,
                span |-> <<0, 0>>, token |-> "None", peeked |-> "None", indentation |-> 0]
    /\ lexResult = [op |-> "none", r |-> "None"]

\* no function is being defined
LockIdle ==
    /\ lockInput = [body |-> <<>>, instances |-> <<>>, generic |-> FALSE]
    /\ lockTrace = <<>>
    /\ lockPc = "idle"

\* no module has been handed to lowering
LowIdle ==
    /\ lowSource = <<>>
    /\ lowModule = [variables |-> <<>>, functions |-> <<>>, statements |-> <<>>]
    /\ lowErrors = <<>>
    /\ lowResult = "none"

IndexInit ==
    /\ CtxIdle /\ LexIdle /\ LockIdle
    /\ LowIdle
    /\ IndexIdle
    /\ ConvIdle
    /\ DtorIdle
    /\ MonoIdle
    /\ DiffIdle

\* context.add_function(f) -> module.insert_function(f)
InsertFunctionAction ==
    \E f \in IndexFunctions :
        /\ ~idxPanic
        /\ idxOps < MaxIndexOps
        /\ functions' = InsertFunction(functions, f)
        /\ idxLast' = <<f>>
        /\ idxHit' = HasPair(functions, f)
        /\ idxOps' = idxOps + 1
        /\ UNCHANGED <<idxPanic, notIdx>>

\* module.define_function(f) of a declared function
DefineFunctionAction ==
    \E f \in IndexFunctions :
        /\ ~idxPanic
        /\ idxOps < MaxIndexOps
        /\ HasKey(functions, name_format(f))
        /\ functions' = DefineFunction(functions, f)
        /\ idxLast' = <<f>>
        /\ idxHit' = HasPair(functions, f)
        /\ idxOps' = idxOps + 1
        /\ UNCHANGED <<idxPanic, notIdx>>

\* module.define_function(f) when no function of that format was declared:
\* get_mut(&format).unwrap() panics
DefineUndeclaredAction ==
    \E f \in IndexFunctions :
        /\ ~idxPanic
        /\ idxOps < MaxIndexOps
        /\ ~HasKey(functions, name_format(f))
        /\ idxPanic' = TRUE
        /\ idxOps' = idxOps + 1
        /\ UNCHANGED <<functions, idxLast, idxHit, notIdx>>

IndexNext ==
    \/ InsertFunctionAction
    \/ DefineFunctionAction
    \/ DefineUndeclaredAction

SpecIndex == IndexInit /\ [][IndexNext]_vars

\* no two entries of a map share a key
UniqueKeys(map) ==
    \A i, j \in 1..Len(map) : map[i].key = map[j].key => i = j

\* C1: the index holds at most one function per (name format, canonical name)
\* pair, each filed under its own pair, and the function last inserted or
\* defined is the one found under its pair: inserting it again changes nothing
C1_IndexOneFunctionPerPair ==
    /\ UniqueKeys(functions)
    /\ \A i \in 1..Len(functions) :
          /\ UniqueKeys(functions[i].val)
          /\ \A j \in 1..Len(functions[i].val) :
                /\ name_format(functions[i].val[j].val) = functions[i].key
                /\ name(functions[i].val[j].val) = functions[i].val[j].key
    /\ idxLast /= <<>> =>
          /\ HasPair(functions, idxLast[1])
          /\ MapGet(MapGet(functions, name_format(idxLast[1])), name(idxLast[1]))
                 = idxLast[1]
          /\ InsertFunction(functions, idxLast[1]) = functions

\* a definition replaced the declaration of the same pair, in a bucket that
\* holds an overload as well
C1_Witness ==
    /\ idxHit
    /\ idxLast /= <<>>
    /\ idxLast[1].body /= <<>>
    /\ \E i \in 1..Len(functions) : Len(functions[i].val) >= 2

(***************************************************************************)
(* Convertibility (semantics/convert.rs) and trait implementation          *)
(* (semantics/implements.rs).  A check answers "true", "false",            *)
(* "NotImplemented" (the Err of the Result) or "abort" (a panic).          *)
(***************************************************************************)

\* the class declarations of the program: basename -> the declared class
ClassDecl(n) ==
    IF n \in {"Point", "Reference", "ReferenceMut"}
    THEN GenericClass(n, <<GenericType("T")>>)
    ELSE Class(n)

\* ClassData::specialization_of, as <<original>> or <<>>
SpecializationOf(t) == IF t.s THEN <<ClassDecl(t.n)>> ELSE <<>>

\* the trait declarations of the program: trait A requires `a <:Self>`;
\* trait B has the super-trait A, requires `b <:Self>` and defines `c <:Self>`;
\* trait C has the super-trait B and requires `d <:Self>`
TraitDecl(n) ==
    IF n = "A"
    THEN [supertraits |-> <<>>,
          functions |-> <<[name_parts |-> <<Text("a"), Param("x", SelfType("A"))>>,
                           is_definition |-> FALSE]>>]
    ELSE IF n = "B"
    THEN [supertraits |-> <<"A">>,
          functions |-> <<[name_parts |-> <<Text("b"), Param("x", SelfType("B"))>>,
                           is_definition |-> FALSE],
                          [name_parts |-> <<Text("c"), Param("x", SelfType("B"))>>,
                           is_definition |-> TRUE]>>]
    ELSE IF n = "C"
    THEN [supertraits |-> <<"B">>,
          functions |-> <<[name_parts |-> <<Text("d"), Param("x", SelfType("C"))>>,
                           is_definition |-> FALSE]>>]
    ELSE [supertraits |-> <<>>, functions |-> <<>>]

\* the name parts of a trait function with every SelfType replaced by the class
WithSelfReplaced(parts, class) ==
    [i \in 1..Len(parts) |->
        IF parts[i].kind = "Parameter" /\ parts[i].ty.k = "Self"
        THEN Param(parts[i].text, class)
        ELSE parts[i]]

\* Context::find_implementation: the context holds a function with the name of
\* the trait function in which the class stands for Self
find_implementation(f, class, ctx) ==
    build_name(WithSelfReplaced(f.name_parts, class)) \in ctx

\* a slip of ImplementsCheck<Class>::within: the super-traits are not checked
ImplementsDirectOnly(class, tr, ctx) ==
    \A i \in 1..Len(TraitDecl(tr).functions) :
        TraitDecl(tr).functions[i].is_definition
            \/ find_implementation(TraitDecl(tr).functions[i], class, ctx)

RECURSIVE Implements(_, _, _)
\* ImplementsCheck<Class>::within: TRUE for Ok(()), FALSE for Err(NotImplemented)
Implements(class, tr, ctx) ==
    LET decl == TraitDecl(tr)
    IN /\ \A i \in 1..Len(decl.supertraits) : Implements(class, decl.supertraits[i], ctx)
       /\ \A i \in 1..Len(decl.functions) :
             decl.functions[i].is_definition
                 \/ find_implementation(decl.functions[i], class, ctx)

\* `all` over the zipped generics with is_ok_and: stops at the first pair that
\* is not Ok(true); a panic of a pair it evaluates unwinds through it
RECURSIVE AllConvertible(_)
AllConvertible(results) ==
    IF results = <<>> THEN "true"
    ELSE IF results[1] = "abort" THEN "abort"
    ELSE IF results[1] /= "true" THEN "false"
    ELSE AllConvertible(Tail(results))

RECURSIVE ConvType(_, _, _)
RECURSIVE ConvClass(_, _, _)
RECURSIVE ConvTrait(_, _, _)
RECURSIVE ConvGeneric(_, _, _)
RECURSIVE ConvSelf(_, _, _)

Bool(b) == IF b THEN "true" ELSE "false"

\* a slip of ConvertibleToRequest<GenericType>::within: a generic without a
\* constraint converts to every generic
ConvGenericAnyGeneric(from, to, ctx) ==
    CASE to.k \in {"Class", "Function"} -> "false"
      [] to.k \in {"Self", "Trait"} ->
           IF from.a /= <<>> THEN ConvType(from.a[1], to, ctx) ELSE "false"
      [] OTHER ->
           IF from.a /= <<>> THEN ConvType(from.a[1], to, ctx) ELSE "true"

\* ConvertibleToRequest<Arc<TypeDeclaration>>::within
ConvClass(from, to, ctx) ==
    CASE to.k = "Class" ->
           IF \/ SpecializationOf(to) = <<from>>
              \/ /\ SpecializationOf(from) /= <<>>
                 /\ SpecializationOf(to) = SpecializationOf(from)
           THEN LET n == IF Len(Generics(from)) < Len(Generics(to))
                         THEN Len(Generics(from)) ELSE Len(Generics(to))
                IN AllConvertible([i \in 1..n |->
                       ConvType(Generics(from)[i], Generics(to)[i], ctx)])
           ELSE Bool(from = to)
      [] to.k = "Trait" ->
           IF Implements(from, to.n, ctx) THEN "true" ELSE "NotImplemented"
      [] to.k = "Self" ->
           IF Implements(from, to.n, ctx) THEN "true" ELSE "NotImplemented"
      [] to.k = "Generic" ->
           IF to.a /= <<>> THEN ConvClass(from, to.a[1], ctx) ELSE "true"
      [] OTHER -> "false"

\* ConvertibleToRequest<Arc<TraitDeclaration>>::within
ConvTrait(from, to, ctx) ==
    CASE to.k \in {"Class", "Function"} -> "false"
      [] to.k = "Generic" ->
           IF to.a /= <<>> THEN ConvTrait(from, to.a[1], ctx) ELSE "true"
      [] to.k = "Trait" -> Bool(from = to)
      [] OTHER -> Bool(from = Trait(to.n))

\* ConvertibleToRequest<GenericType>::within
ConvGeneric(from, to, ctx) ==
    CASE to.k \in {"Class", "Function"} -> "false"
      [] to.k \in {"Self", "Trait"} ->
           IF from.a /= <<>> THEN ConvType(from.a[1], to, ctx) ELSE "false"
      [] OTHER ->
           IF from.a /= <<>> THEN ConvType(from.a[1], to, ctx) ELSE Bool(to.a = <<>>)

\* ConvertibleToRequest<FunctionType>::within: todo!() for a function type
ConvFunction(from, to, ctx) ==
    IF to.k = "Function" THEN "abort" ELSE "false"

\* ConvertibleToRequest<SelfType>::within
ConvSelf(from, to, ctx) ==
    CASE to.k \in {"Class", "Function"} -> "false"
      [] to.k = "Self" -> Bool(from = to)
      [] OTHER -> ConvTrait(Trait(from.n), to, ctx)

\* ConvertibleToRequest<Type>::within
ConvType(from, to, ctx) ==
    LET f == WithoutRef(from)
        t == WithoutRef(to)
    IN CASE f.k = "Class" -> ConvClass(f, t, ctx)
         [] f.k = "Function" -> ConvFunction(f, t, ctx)
         [] f.k = "Generic" -> ConvGeneric(f, t, ctx)
         [] f.k = "Self" -> ConvSelf(f, t, ctx)
         [] OTHER -> ConvTrait(f, t, ctx)

\* a type with every surrounding Reference/ReferenceMut layer removed
RECURSIVE StripRefs(_)
StripRefs(t) == IF IsAnyReference(t) THEN StripRefs(Generics(t)[1]) ELSE t

\* Reference<T> and ReferenceMut<T>
RefTo(t)    == ClassOf("Reference", <<t>>)
RefMutTo(t) == ClassOf("ReferenceMut", <<t>>)

\* reference layers put around a type in the explored requests
MaxRefDepth == 2

RECURSIVE RefsOver(_, _)
\* the types of ts under at most d layers of Reference/ReferenceMut
RefsOver(ts, d) ==
    IF d = 0 THEN ts
    ELSE LET inner == RefsOver(ts, d - 1)
         IN inner \cup { RefTo(t) : t \in inner } \cup { RefMutTo(t) : t \in inner }

X == Class("X")
Y == Class("Y")

\* the types without reference that requests are made of
ConvBaseTypes ==
    { X, Y,
      GenericClass("Point", <<GenericType("T")>>),
      ClassOf("Point", <<X>>), ClassOf("Point", <<Y>>),
      ClassOf("Point", <<GenericType("U")>>),
      ClassOf("Point", <<GenericWith("GA", Trait("A"))>>),
      ClassOf("Point", <<RefTo(X)>>),
      ClassOf("Point", <<FunctionType(<<>>, X)>>),
      Trait("A"), Trait("B"), Trait("C"),
      SelfType("A"), SelfType("B"),
      GenericType("T"), GenericType("U"),
      GenericWith("GA", Trait("A")), GenericWith("GB", Trait("B")),
      GenericWith("GX", X), GenericWith("GT", GenericType("T")),
      GenericWith("GG", GenericWith("GA", Trait("A"))),
      GenericWith("GS", SelfType("A")),
      GenericWith("GP", ClassOf("Point", <<RefTo(X)>>)),
      FunctionType(<<>>, X), FunctionType(<<X>>, X) }

ConvTypes == ConvBaseTypes \cup RefsOver({X, GenericType("T")}, MaxRefDepth)

\* the functions the surrounding context may hold
ConvContexts ==
    { {}, {"a <:X>"}, {"a <:X>", "b <:X>"}, {"a <:X>", "b <:X>", "a <:Y>"},
      {"a <:X>", "b <:X>", "d <:X>", "c <:Y>"}, {"b <:X>", "d <:X>", "a <:Y>"} }

ConvInit ==
    /\ CtxIdle /\ LexIdle /\ LockIdle
    /\ LowIdle
    /\ IndexIdle
    /\ DtorIdle
    /\ MonoIdle
    /\ DiffIdle
    /\ convCtx \in ConvContexts
    /\ convFrom \in ConvTypes
    /\ convTo \in ConvTypes
    /\ convResult = "none"
    /\ convPc = "ready"

\* from.convertible_to(to).within(context)
ConvertibleToAction ==
    /\ convPc = "ready"
    /\ convResult' = ConvType(convFrom, convTo, convCtx)
    /\ convPc' = "done"
    /\ UNCHANGED <<convCtx, convFrom, convTo, notConv>>

ConvNext == ConvertibleToAction

SpecConv == ConvInit /\ [][ConvNext]_vars

C9_ConvertibleReflexive ==
    (convPc = "done" /\ convFrom = convTo) => convResult = "true"

\* C10: a request answers as the request on the two types with all their
\* surrounding references removed
C10_ConvertibleIgnoresReferences ==
    convPc = "done" =>
        convResult = ConvType(StripRefs(convFrom), StripRefs(convTo), convCtx)

\* C11: a class converts to a trait (or to its Self type) exactly when the
\* context holds, for the trait and for every trait reached from it through
\* super-traits, each function the trait declares without defining it, named
\* with the class in place of Self; functions a trait defines are not asked for
C11_ImplementsExactly ==
    LET class == WithoutRef(convFrom)
        tr    == WithoutRef(convTo)
        names == {"A", "B", "C"}
        supers(n) == { TraitDecl(n).supertraits[i] : i \in DOMAIN TraitDecl(n).supertraits }
        reached == { n \in names :
                       \/ n = tr.n
                       \/ n \in supers(tr.n)
                       \/ \E via \in supers(tr.n) : n \in supers(via) }
        required == UNION { { build_name(WithSelfReplaced(TraitDecl(n).functions[i].name_parts,
                                                          class)) :
                                i \in { j \in DOMAIN TraitDecl(n).functions :
                                           ~TraitDecl(n).functions[j].is_definition } } :
                            n \in reached }
    IN (convPc = "done" /\ class.k = "Class" /\ tr.k \in {"Trait", "Self"}) =>
           /\ (convResult = "true") <=> (required \subseteq convCtx)
           /\ convResult \in {"true", "NotImplemented"}

\* the class X was checked against the trait C, whose super-traits are B and
\* A, in a context that holds a, b and d for X
C11_Witness ==
    /\ convPc = "done"
    /\ convFrom = X
    /\ convTo = Trait("C")
    /\ convCtx = {"a <:X>", "b <:X>", "d <:X>", "c <:Y>"}
    /\ convResult = "true"

\* C30: the convertibility check returns a verdict for every pair of types:
\* convertible, not convertible or a NotImplemented error; it never aborts.
C30_ConvertibleAlwaysAnswers ==
    convPc = "done" => convResult \in {"true", "false", "NotImplemented"}

(***************************************************************************)
(* Destructor insertion (semantics/destructors.rs).                        *)
(***************************************************************************)

\* hir::Statement, one record shape for all variants
Stmt(k, v, ty, function, body, else_ifs, else_block) ==
    [k |-> k, v |-> v, ty |-> ty, function |-> function, body |-> body,
     else_ifs |-> else_ifs, else_block |-> else_block]

\* `let v = <initializer of type ty>`
Declaration(v, ty) == Stmt("Declaration", v, ty, "", <<>>, <<>>, <<>>)
\* `v = <value>`, v of type ty
Assignment(v, ty) == Stmt("Assignment", v, ty, "", <<>>, <<>>, <<>>)
\* `return`
Return == Stmt("Return", "", Unknown, "", <<>>, <<>>, <<>>)
\* an expression statement: a call of the function named fname on the variable v
CallStmt(fname, v) == Stmt("Expression", v, Unknown, fname, <<>>, <<>>, <<>>)
\* `if c: body (else if c: b)* (else: e)?`; else_block is <<e>> or <<>>
If(body, else_ifs, else_block) == Stmt("If", "", Unknown, "", body, else_ifs, else_block)
Loop(body) == Stmt("Loop", "", Unknown, "", body, <<>>, <<>>)
While(body) == Stmt("While", "", Unknown, "", body, <<>>, <<>>)

\* the canonical name of the destructor of a type: `destroy <:T>`
DestructorName(ty) == build_name(<<Text("destroy"), Param("", ty)>>)

\* Context::destructor_for: <<destructor>> when the context holds
\* `destroy <:T>` for the type, <<>> otherwise
destructor_for(ty, ctx) ==
    IF DestructorName(ty) \in ctx THEN <<DestructorName(ty)>> ELSE <<>>

RECURSIVE with_destructors(_, _)
RECURSIVE MapWithDestructors(_, _)

\* with_destructors applied to each body of a list of bodies
MapWithDestructors(bodies, ctx) ==
    IF bodies = <<>> THEN <<>>
    ELSE <<with_destructors(bodies[1], ctx)>> \o MapWithDestructors(Tail(bodies), ctx)

\* with_destructors that stores first and destroys afterwards
with_destructorsAfterStore(statements, ctx) ==
    IF statements = <<>> THEN <<>>
    ELSE LET stmt == statements[1]
             rest == with_destructors(Tail(statements), ctx)
         IN CASE stmt.k = "Assignment" ->
                   IF destructor_for(stmt.ty, ctx) /= <<>>
                   THEN <<stmt, CallStmt(destructor_for(stmt.ty, ctx)[1], stmt.v)>> \o rest
                   ELSE <<stmt>> \o rest
              [] stmt.k = "If" ->
                   <<If(with_destructors(stmt.body, ctx),
                        MapWithDestructors(stmt.else_ifs, ctx),
                        MapWithDestructors(stmt.else_block, ctx))>> \o rest
              [] stmt.k = "Loop" ->
                   <<Loop(with_destructors(stmt.body, ctx))>> \o rest
              [] stmt.k = "While" ->
                   <<While(with_destructors(stmt.body, ctx))>> \o rest
              [] OTHER -> <<stmt>> \o rest

\* with_destructors that pushes the rebuilt if, loop or while without
\* `continue`, so that the original statement follows it
with_destructorsNoContinue(statements, ctx) ==
    IF statements = <<>> THEN <<>>
    ELSE LET stmt == statements[1]
             rest == with_destructors(Tail(statements), ctx)
         IN CASE stmt.k = "Assignment" ->
                   IF destructor_for(stmt.ty, ctx) /= <<>>
                   THEN <<CallStmt(destructor_for(stmt.ty, ctx)[1], stmt.v), stmt>> \o rest
                   ELSE <<stmt>> \o rest
              [] stmt.k = "If" ->
                   <<If(with_destructors(stmt.body, ctx),
                        MapWithDestructors(stmt.else_ifs, ctx),
                        MapWithDestructors(stmt.else_block, ctx)), stmt>> \o rest
              [] stmt.k = "Loop" ->
                   <<Loop(with_destructors(stmt.body, ctx)), stmt>> \o rest
              [] stmt.k = "While" ->
                   <<While(with_destructors(stmt.body, ctx)), stmt>> \o rest
              [] OTHER -> <<stmt>> \o rest

\* with_destructors: the statements with the destructor calls inserted
with_destructors(statements, ctx) ==
    IF statements = <<>> THEN <<>>
    ELSE LET stmt == statements[1]
             rest == with_destructors(Tail(statements), ctx)
         IN CASE stmt.k = "Assignment" ->
                   IF destructor_for(stmt.ty, ctx) /= <<>>
                   THEN <<CallStmt(destructor_for(stmt.ty, ctx)[1], stmt.v), stmt>> \o rest
                   ELSE <<stmt>> \o rest
              [] stmt.k = "If" ->
                   <<If(with_destructors(stmt.body, ctx),
                        MapWithDestructors(stmt.else_ifs, ctx),
                        MapWithDestructors(stmt.else_block, ctx))>> \o rest
              [] stmt.k = "Loop" ->
                   <<Loop(with_destructors(stmt.body, ctx))>> \o rest
              [] stmt.k = "While" ->
                   <<While(with_destructors(stmt.body, ctx))>> \o rest
              [] OTHER -> <<stmt>> \o rest

\* Function::insert_destructors for every function of iter_functions_mut
InsertDestructorsInFunctions(fs, ctx) == MapWithDestructors(fs, ctx)

\* what happens along a control-flow path
Event(e, v, ty, function) == [e |-> e, v |-> v, ty |-> ty, function |-> function]

\* the scope exits of the variables a block declares, last declared first
RECURSIVE ScopeExits(_)
ScopeExits(statements) ==
    IF statements = <<>> THEN <<>>
    ELSE ScopeExits(Tail(statements)) \o
         (IF statements[1].k = "Declaration"
          THEN <<Event("exit", statements[1].v, statements[1].ty, "")>> ELSE <<>>)

RECURSIVE Paths(_)
RECURSIVE BlockPaths(_)
RECURSIVE BlocksPaths(_)

\* the paths through a block: those through its statements, each path that
\* falls off the end leaving the scope of the block's variables
BlockPaths(body) ==
    { IF p.r THEN p ELSE [t |-> p.t \o ScopeExits(body), r |-> FALSE] : p \in Paths(body) }

\* the paths through any one of a list of blocks
BlocksPaths(bodies) ==
    IF bodies = <<>> THEN {}
    ELSE BlockPaths(bodies[1]) \cup BlocksPaths(Tail(bodies))

\* the paths through one statement: t the events, r whether it returned
StmtPaths(stmt) ==
    LET skip == {[t |-> <<>>, r |-> FALSE]}
    IN CASE stmt.k = "Declaration" ->
              {[t |-> <<Event("decl", stmt.v, stmt.ty, "")>>, r |-> FALSE]}
         [] stmt.k = "Assignment" ->
              {[t |-> <<Event("assign", stmt.v, stmt.ty, "")>>, r |-> FALSE]}
         [] stmt.k = "Expression" ->
              {[t |-> <<Event("call", stmt.v, stmt.ty, stmt.function)>>, r |-> FALSE]}
         [] stmt.k = "Return" ->
              {[t |-> <<Event("return", "", Unknown, "")>>, r |-> TRUE]}
         [] stmt.k = "If" ->
              BlockPaths(stmt.body) \cup BlocksPaths(stmt.else_ifs)
                  \cup (IF stmt.else_block = <<>> THEN skip
                        ELSE BlocksPaths(stmt.else_block))
         [] OTHER -> skip \cup BlockPaths(stmt.body)

\* the paths through a statement sequence
Paths(statements) ==
    IF statements = <<>> THEN {[t |-> <<>>, r |-> FALSE]}
    ELSE UNION { IF p.r THEN {p}
                 ELSE { [t |-> p.t \o q.t, r |-> q.r] : q \in Paths(Tail(statements)) }
                 : p \in StmtPaths(statements[1]) }

\* the variables a statement sequence declares, nested blocks included
RECURSIVE DeclaredIn(_)
RECURSIVE DeclaredInBlocks(_)
DeclaredInBlocks(bodies) ==
    IF bodies = <<>> THEN <<>>
    ELSE DeclaredIn(bodies[1]) \o DeclaredInBlocks(Tail(bodies))
DeclaredIn(statements) ==
    IF statements = <<>> THEN <<>>
    ELSE (IF statements[1].k = "Declaration" THEN <<statements[1].v>>
          ELSE DeclaredIn(statements[1].body)
                   \o DeclaredInBlocks(statements[1].else_ifs)
                   \o DeclaredInBlocks(statements[1].else_block))
         \o DeclaredIn(Tail(statements))

\* the variables a statement sequence assigns or declares, with their types
RECURSIVE TargetsIn(_)
RECURSIVE TargetsInBlocks(_)
TargetsInBlocks(bodies) ==
    IF bodies = <<>> THEN {}
    ELSE TargetsIn(bodies[1]) \cup TargetsInBlocks(Tail(bodies))
TargetsIn(statements) ==
    IF statements = <<>> THEN {}
    ELSE (IF statements[1].k \in {"Declaration", "Assignment"}
          THEN {<<statements[1].v, statements[1].ty>>}
          ELSE TargetsIn(statements[1].body)
                   \cup TargetsInBlocks(statements[1].else_ifs)
                   \cup TargetsInBlocks(statements[1].else_block))
         \cup TargetsIn(Tail(statements))

\* a lowered body: a name is declared once and has one type, and every
\* assignment or use of a variable happens in the scope of its declaration
WellFormedBody(body) ==
    /\ \A i, j \in 1..Len(DeclaredIn(body)) :
           DeclaredIn(body)[i] = DeclaredIn(body)[j] => i = j
    /\ \A a, b \in TargetsIn(body) : a[1] = b[1] => a = b
    /\ \A p \in BlockPaths(body) :
           \A i \in 1..Len(p.t) :
               p.t[i].e \in {"assign", "call"} =>
                   \E j \in 1..(i - 1) :
                       /\ p.t[j].e = "decl"
                       /\ p.t[j].v = p.t[i].v
                       /\ \A k \in j..i : ~(p.t[k].e = "exit" /\ p.t[k].v = p.t[i].v)

\* statements of a function body
MaxBodyLen == 3

\* the statements nested blocks are made of
DtorInnerBodies ==
    { <<Return>>,
      <<Assignment("x", String)>>,
      <<Declaration("z", String), Return>>,
      <<Declaration("z", String)>> }

\* the statements function bodies are made of
DtorStatements ==
    { Declaration("x", String), Declaration("y", Integer), Declaration("w", String),
      Assignment("x", String), Assignment("y", Integer),
      Return,
      CallStmt("print <:String>", "x") }
    \cup { If(b, <<>>, <<>>) : b \in DtorInnerBodies }
    \cup { If(<<Return>>, <<>>, <<<<Assignment("x", String)>>>>),
           If(<<Assignment("x", String)>>, <<<<Return>>>>, <<<<Declaration("z", String)>>>>),
           Loop(<<Assignment("x", String)>>),
           While(<<Declaration("z", String), Return>>) }

RECURSIVE SeqsUpTo(_, _)
\* the sequences over S of length at most n
SeqsUpTo(S, n) ==
    IF n = 0 THEN {<<>>}
    ELSE LET shorter == SeqsUpTo(S, n - 1)
         IN shorter \cup { <<s>> \o q : s \in S, q \in { r \in shorter : Len(r) = n - 1 } }

\* the lowered function bodies of the explored modules
DtorBodies == { b \in SeqsUpTo(DtorStatements, MaxBodyLen) : WellFormedBody(b) }

\* the functions the context may hold
DtorContexts ==
    { {}, {DestructorName(String)}, {DestructorName(String), DestructorName(Integer)} }

\* the top-level statements of the explored modules
DtorTopLevel ==
    { <<>>, <<Declaration("g", String), Assignment("g", String)>> }

DtorInit ==
    /\ CtxIdle /\ LexIdle /\ LockIdle
    /\ LowIdle
    /\ IndexIdle
    /\ ConvIdle
    /\ MonoIdle
    /\ DiffIdle
    /\ dtorCtx \in DtorContexts
    /\ dtorFunctions \in { <<b>> : b \in DtorBodies }
    /\ dtorInstances \in { <<>>, <<<<Declaration("x", String), Assignment("x", String)>>>> }
    /\ dtorStatements \in DtorTopLevel
    /\ dtorPc = "ready"

\* ModuleData::insert_destructors: the functions of iter_functions_mut (the
\* two-level index `functions`; the monomorphized list is not part of it),
\* then the statements of the module
InsertDestructorsAction ==
    /\ dtorPc = "ready"
    /\ dtorFunctions' = InsertDestructorsInFunctions(dtorFunctions, dtorCtx)
    /\ dtorStatements' = with_destructors(dtorStatements, dtorCtx)
    /\ dtorPc' = "done"
    /\ UNCHANGED <<dtorCtx, dtorInstances, notDtor>>

DtorNext == InsertDestructorsAction

SpecDtor == DtorInit /\ [][DtorNext]_vars

\* a call of the destructor of the variable declared by the event d
IsDestroy(ev, d) ==
    ev.e = "call" /\ ev.v = d.v /\ ev.function = DestructorName(d.ty)

\* on the path t, where the variable declared at j stops being usable: its
\* scope exit, or the return that ends the path
ScopeEnd(t, j) ==
    LET exits == { k \in (j + 1)..Len(t) : t[k].e = "exit" /\ t[k].v = t[j].v }
    IN IF exits = {} THEN Len(t)
       ELSE CHOOSE k \in exits : \A m \in exits : k <= m

\* on the path t, where the variable declared at j last got a value
LastInit(t, j) ==
    LET inits == { k \in j..(ScopeEnd(t, j) - 1) :
                      t[k].e \in {"decl", "assign"} /\ t[k].v = t[j].v }
    IN CHOOSE k \in inits : \A m \in inits : m <= k

\* the declarations before position i of the path whose scope is open at i
LiveAt(t, i) ==
    { j \in 1..(i - 1) : t[j].e = "decl" /\ ScopeEnd(t, j) >= i }

RECURSIVE Descending(_)
\* a set of positions as a sequence, last first
Descending(S) ==
    IF S = {} THEN <<>>
    ELSE LET m == CHOOSE k \in S : \A o \in S : o <= k
         IN <<m>> \o Descending(S \ {m})

\* C5: after destructor insertion, on every path through a function, a
\* variable whose type has a destructor is destroyed exactly once between its
\* last initialization and the end of its scope
C5_DestructorPairing ==
    dtorPc = "done" =>
        \A f \in 1..Len(dtorFunctions) :
            \A p \in BlockPaths(dtorFunctions[f]) :
                \A j \in 1..Len(p.t) :
                    (p.t[j].e = "decl" /\ destructor_for(p.t[j].ty, dtorCtx) /= <<>>) =>
                        Cardinality({ k \in (LastInit(p.t, j) + 1)..(ScopeEnd(p.t, j) - 1) :
                                         IsDestroy(p.t[k], p.t[j]) }) = 1

\* C6: after destructor insertion, every Return is directly preceded by the
\* destructor calls of the live locals declared above it, last declared first
C6_ReturnDestroysLiveLocals ==
    dtorPc = "done" =>
        \A f \in 1..Len(dtorFunctions) :
            \A p \in BlockPaths(dtorFunctions[f]) :
                p.r =>
                    LET n == Len(p.t)
                        live == Descending({ j \in LiveAt(p.t, n) :
                                    destructor_for(p.t[j].ty, dtorCtx) /= <<>> })
                    IN \A i \in 1..Len(live) :
                           /\ n - Len(live) - 1 + i >= 1
                           /\ IsDestroy(p.t[n - Len(live) - 1 + i], p.t[live[i]])

RECURSIVE BlocksOf(_)
\* the statement sequences of the bodies, at every nesting level
BlocksOf(bodies) ==
    IF bodies = <<>> THEN {}
    ELSE {bodies[1]}
         \cup UNION { BlocksOf(<<bodies[1][i].body>> \o bodies[1][i].else_ifs
                                   \o bodies[1][i].else_block) : i \in DOMAIN bodies[1] }
         \cup BlocksOf(Tail(bodies))

\* in the block b the statement at j is a call of the destructor of the
\* target of the assignment at i
DestroysTargetOf(b, j, i) ==
    /\ j \in DOMAIN b
    /\ b[j] = CallStmt(DestructorName(b[i].ty), b[i].v)

\* C26: after destructor insertion every assignment whose target type has a
\* destructor is preceded by exactly one call of that destructor on the
\* target, immediately before it; an assignment whose target type has no
\* destructor is preceded by none.
C26_DestroyBeforeAssignment ==
    dtorPc = "done" =>
        \A b \in BlocksOf(dtorFunctions \o <<dtorStatements>>) :
            \A i \in DOMAIN b :
                b[i].k = "Assignment" =>
                    IF destructor_for(b[i].ty, dtorCtx) /= <<>>
                    THEN DestroysTargetOf(b, i - 1, i) /\ ~DestroysTargetOf(b, i - 2, i)
                    ELSE ~DestroysTargetOf(b, i - 1, i)

C26_Witness ==
    /\ dtorPc = "done"
    /\ \E b \in BlocksOf(dtorFunctions) :
           /\ b /= dtorFunctions[1]
           /\ \E i \in DOMAIN b : b[i].k = "Assignment" /\ DestroysTargetOf(b, i - 1, i)
    /\ \E i \in DOMAIN dtorFunctions[1] :
           /\ dtorFunctions[1][i] = Assignment("y", Integer)
           /\ ~DestroysTargetOf(dtorFunctions[1], i - 1, i)

\* C27: destructor insertion processes the body of every instance of the
\* monomorphized list as it processes the other bodies: an assignment there
\* whose target type has a destructor is preceded by the destructor call.
C27_InstancesProcessed ==
    dtorPc = "done" =>
        \A b \in BlocksOf(dtorInstances) :
            \A i \in DOMAIN b :
                (b[i].k = "Assignment" /\ destructor_for(b[i].ty, dtorCtx) /= <<>>)
                    => DestroysTargetOf(b, i - 1, i)

RECURSIVE WithoutDestructors(_)
\* the statements without the destructor calls, at every nesting level
WithoutDestructors(statements) ==
    LET kept == SelectSeq(statements,
                          LAMBDA st : ~(st.k = "Expression"
                                        /\ st.function \in {DestructorName(String),
                                                            DestructorName(Integer)}))
    IN [i \in DOMAIN kept |->
          [kept[i] EXCEPT
             !.body = WithoutDestructors(@),
             !.else_ifs = [j \in DOMAIN @ |-> WithoutDestructors(@[j])],
             !.else_block = [j \in DOMAIN @ |-> WithoutDestructors(@[j])]]]

\* C29: destructor insertion only adds destructor calls: the output without
\* them is the original statement sequence, at every nesting level.
C29_OnlyDestructorsAdded ==
    [][(dtorPc = "ready" /\ dtorPc' = "done") =>
          /\ Len(dtorFunctions') = Len(dtorFunctions)
          /\ \A f \in DOMAIN dtorFunctions :
                WithoutDestructors(dtorFunctions'[f]) = dtorFunctions[f]
          /\ WithoutDestructors(dtorStatements') = dtorStatements]_vars

C29_Witness ==
    /\ dtorPc = "done"
    /\ dtorFunctions[1] /= WithoutDestructors(dtorFunctions[1])
    /\ \E i \in DOMAIN dtorFunctions[1] : dtorFunctions[1][i].k \in {"If", "Loop", "While"}
    /\ dtorStatements /= WithoutDestructors(dtorStatements)

(***************************************************************************)
(* Monomorphization (semantics/monomorphize.rs).  Functions are shared     *)
(* holders: module.holders[h] is the FunctionData behind the handle h, and *)
(* calls, the function index and the monomorphized list hold handles.      *)
(***************************************************************************)

\* hir::Expression and the variable declaration statement, one record shape:
\* args holds the arguments of a call, the base of a member reference or the
\* initializer of a variable
Expr(k, function, args, v, ty, index, member) ==
    [k |-> k, function |-> function, args |-> args, v |-> v, ty |-> ty,
     index |-> index, member |-> member]

\* MemberData
Member(n, ty) == [name |-> n, ty |-> ty]

Literal(ty) == Expr("Literal", 0, <<>>, "", ty, 0, Member("", Unknown))
\* a reference to the parameter v of type ty
VariableReference(v, ty) == Expr("VariableReference", 0, <<>>, v, ty, 0, Member("", Unknown))
Call(function, args) == Expr("Call", function, args, "", Unknown, 0, Member("", Unknown))
MemberReference(base, index, member) ==
    Expr("MemberReference", 0, <<base>>, "", Unknown, index, member)
\* `let v = initializer`, v of type ty
Variable(v, ty, initializer) ==
    Expr("Variable", 0, <<initializer>>, v, ty, 0, Member("", Unknown))

\* ImplicitConversion: kind is "Reference", "Dereference" or "Copy", ty the type
\* of the converted expression
ImplicitConversion(kind, ty, expression) ==
    Expr("ImplicitConversion", 0, <<expression>>, kind, ty, 0, Member("", Unknown))

\* FunctionData; generic_version is the handle of the generic original, 0 for None
FunctionData(generic_types, name_parts, return_type, body) ==
    [generic_types |-> generic_types, name_parts |-> name_parts,
     return_type |-> return_type, mangled_name |-> "", body |-> body,
     generic_version |-> 0]

\* Type::members
Members(t) == IF t.k = "Class" THEN t.m ELSE <<>>

\* the class Point<t> with the member x: t
PointOf(t) ==
    [k |-> "Class", n |-> "Point", a |-> <<t>>, s |-> t.k /= "Generic",
     m |-> <<Member("x", t)>>]

RECURSIVE IsGenericType(_)
\* Generic for Type, ClassData, MemberData
IsGenericType(t) ==
    CASE t.k \in {"Self", "Trait", "Generic"} -> TRUE
      [] t.k = "Class" ->
           \/ \E i \in DOMAIN t.a : IsGenericType(t.a[i])
           \/ \E i \in DOMAIN t.m : IsGenericType(t.m[i].ty)
      [] t.k = "Function" -> \E i \in DOMAIN t.a : IsGenericType(t.a[i])
      [] OTHER -> FALSE

\* Generic for FunctionDeclaration: a parameter or the return type is generic
IsGenericFn(f) ==
    \/ \E i \in DOMAIN f.name_parts :
           f.name_parts[i].kind = "Parameter" /\ IsGenericType(f.name_parts[i].ty)
    \/ IsGenericType(f.return_type)

\* Typed for Expression
ExprTy(holders, e) ==
    CASE e.k = "Call" -> holders[e.function].return_type
      [] e.k = "MemberReference" -> e.member.ty
      [] OTHER -> e.ty

RECURSIVE IsGenericExpr(_, _)
\* Generic for Expression and Variable
IsGenericExpr(holders, e) ==
    CASE e.k = "Call" ->
           \/ IsGenericFn(holders[e.function])
           \/ \E i \in DOMAIN e.args : IsGenericExpr(holders, e.args[i])
      [] e.k = "MemberReference" ->
           IsGenericExpr(holders, e.args[1]) \/ IsGenericType(e.member.ty)
      [] e.k = "Variable" ->
           IsGenericType(e.ty) \/ IsGenericExpr(holders, e.args[1])
      [] e.k = "VariableReference" -> IsGenericType(e.ty)
      [] e.k = "ImplicitConversion" -> IsGenericExpr(holders, e.args[1])
      [] OTHER -> FALSE

\* Context::get_specialized: <<the type the mapping gives t>> or <<>>; a
\* mapping is a sequence of <<generic, concrete>>, the innermost context first
get_specialized(t, mapping) ==
    IF \E i \in DOMAIN mapping : mapping[i][1] = t
    THEN <<mapping[CHOOSE i \in DOMAIN mapping :
                /\ mapping[i][1] = t
                /\ \A j \in 1..(i - 1) : mapping[j][1] /= t][2]>>
    ELSE <<>>

RECURSIVE MonoType(_, _)
\* Monomorphize for Type, Class and Member
MonoType(t, mapping) ==
    CASE t.k = "Class" ->
           IF ~IsGenericType(t) THEN t
           ELSE [t EXCEPT
                   !.a = [i \in DOMAIN t.a |-> MonoType(t.a[i], mapping)],
                   !.m = [i \in DOMAIN t.m |->
                            IF IsGenericType(t.m[i].ty)
                            THEN Member(t.m[i].name, MonoType(t.m[i].ty, mapping))
                            ELSE t.m[i]]]
      [] t.k \in {"Generic", "Self", "Trait"} ->
           IF get_specialized(t, mapping) /= <<>>
           THEN get_specialized(t, mapping)[1] ELSE t
      [] OTHER -> t

\* Monomorphize for FunctionNamePart and Parameter
MonoParts(parts, mapping) ==
    [i \in DOMAIN parts |->
        IF parts[i].kind = "Parameter" /\ IsGenericType(parts[i].ty)
        THEN Param(parts[i].text, MonoType(parts[i].ty, mapping))
        ELSE parts[i]]

RECURSIVE Diff(_, _)
RECURSIVE DiffAll(_, _)
\* Type::diff, as the sequence of <<from, to>> entries
Diff(from, to) ==
    IF from = to THEN <<>>
    ELSE IF from.k = "Class" /\ to.k = "Class" /\ from.n = to.n
    THEN DiffAll(from.a, to.a)
    ELSE <<<<from, to>>>>
\* the diffs of the zipped types
DiffAll(froms, tos) ==
    IF froms = <<>> \/ tos = <<>> THEN <<>>
    ELSE Diff(froms[1], tos[1]) \o DiffAll(Tail(froms), Tail(tos))

\* GenericContext::for_fn_with_args: the mapping that turns the parameter
\* types of f into the types of the arguments, in front of the parent's mapping
ForFnWithArgs(holders, f, args, parent) ==
    LET ps == SelectSeq(f.name_parts, LAMBDA p : p.kind = "Parameter")
    IN DiffAll([i \in DOMAIN ps |-> ps[i].ty],
               [i \in DOMAIN args |-> ExprTy(holders, args[i])]) \o parent

\* Context::function_with_name: <<the function of the index with that name>> or <<>>
function_with_name(module, n) ==
    LET hs == SelectSeq(module.functions,
                        LAMBDA h : build_name(module.holders[h].name_parts) = n)
    IN IF hs = <<>> THEN <<>> ELSE <<module.holders[hs[1]]>>

\* a slip of Call::monomorphize: the instance is pushed and the call keeps
\* the generic original
InstantiateKeepOriginal(module, e, args, f) ==
    IF module.holders[e.function] /= f
    THEN [m |-> [module EXCEPT
                   !.holders = Append(@, [f EXCEPT !.generic_version = e.function]),
                   !.monomorphized_functions = Append(@, Len(module.holders) + 1)],
          e |-> [e EXCEPT !.args = args]]
    ELSE [m |-> module, e |-> [e EXCEPT !.args = args]]

\* a slip of Call::monomorphize: an instance of the same generic original is
\* reused whatever its name
InstantiateReuseByOrigin(module, e, args, f) ==
    LET same == SelectSeq(module.monomorphized_functions,
                          LAMBDA h : module.holders[h].generic_version = e.function)
    IN IF module.holders[e.function] = f
       THEN [m |-> module, e |-> [e EXCEPT !.args = args]]
       ELSE IF same /= <<>>
       THEN [m |-> module, e |-> [e EXCEPT !.function = same[1], !.args = args]]
       ELSE [m |-> [module EXCEPT
                      !.holders = Append(@, [f EXCEPT !.generic_version = e.function]),
                      !.monomorphized_functions = Append(@, Len(module.holders) + 1)],
             e |-> [e EXCEPT !.function = Len(module.holders) + 1, !.args = args]]

\* a slip of Call::monomorphize: the monomorphized clone is written to the
\* function of the call instead of becoming a new function
InstantiateInPlace(module, e, args, f) ==
    [m |-> [module EXCEPT !.holders[e.function] = f], e |-> [e EXCEPT !.args = args]]

\* Call::monomorphize, lines 286-293: when the monomorphized clone f differs
\* from the function of the call, f becomes a new holder linked to the
\* original, the call refers to it and it is pushed to the monomorphized list
Instantiate(module, e, args, f) ==
    IF module.holders[e.function] /= f
    THEN [m |-> [module EXCEPT
                   !.holders = Append(@, [f EXCEPT !.generic_version = e.function]),
                   !.monomorphized_functions = Append(@, Len(module.holders) + 1)],
          e |-> [e EXCEPT !.function = Len(module.holders) + 1, !.args = args]]
    ELSE [m |-> module, e |-> [e EXCEPT !.args = args]]

\* a slip of MemberReference::monomorphize: the member is not read again
StaleMember(holders, base, e) == e.member

\* MemberReference::monomorphize, line 390: the member at the index in the
\* members of the type of the monomorphized base
RefreshMember(holders, base, e) == Members(ExprTy(holders, base))[e.index]

\* a monomorphization of a conversion that converts the monomorphized
\* expression once more instead of replacing the converted expression
MonomorphizeConversionAgain(holders, expression, e) ==
    [e EXCEPT !.args = <<[e EXCEPT !.args = <<expression>>]>>]

\* Monomorphize for ImplicitConversion, after its expression was
\* monomorphized: the node keeps its kind and takes its type from the
\* expression again (the converted expressions of the explored modules are
\* literals and parameters, none of them mutable)
MonomorphizeConversion(holders, expression, e) ==
    LET ty == ExprTy(holders, expression)
        is_mutable == FALSE
    IN [e EXCEPT
          !.args = <<expression>>,
          !.ty = CASE e.v = "Reference" -> IF is_mutable THEN RefMutTo(ty) ELSE RefTo(ty)
                   [] e.v = "Dereference" -> WithoutRef(ty)
                   [] OTHER -> ty]

\* frames of Call::monomorphize the stack of the process holds; a deeper
\* recursion overflows the stack and ends the process
MaxStack == 4

RECURSIVE MonoExpr(_, _, _)
RECURSIVE MonoExprs(_, _, _)
RECURSIVE MonoFunctionData(_, _, _)

\* Monomorphize for Vec<T>: each element in turn, on the module the previous
\* ones left
MonoExprs(module, es, mapping) ==
    IF es = <<>> THEN [m |-> module, es |-> <<>>]
    ELSE LET head == MonoExpr(module, es[1], mapping)
             rest == MonoExprs(head.m, Tail(es), mapping)
         IN [m |-> rest.m, es |-> <<head.e>> \o rest.es]

\* Monomorphize for FunctionData
MonoFunctionData(module, f, mapping) ==
    IF ~IsGenericFn(f) THEN [m |-> module, f |-> f]
    ELSE LET parts == MonoParts(f.name_parts, mapping)
             named == function_with_name(module, build_name(parts))
             body  == MonoExprs(module, f.body, mapping)
         IN [m |-> body.m,
             f |-> [f EXCEPT
                      !.generic_types = [i \in DOMAIN f.generic_types |->
                                            MonoType(f.generic_types[i], mapping)],
                      !.name_parts = parts,
                      !.return_type = MonoType(@, mapping),
                      !.mangled_name = IF named /= <<>> /\ named[1].mangled_name /= ""
                                       THEN named[1].mangled_name ELSE @,
                      !.body = body.es]]

\* Monomorphize for Statement, Expression, Call, VariableReference,
\* MemberReference and Variable.  module.stack counts the frames of
\* Call::monomorphize that are active, module.overflow tells that the stack
\* overflowed (nothing runs after that).
MonoExpr(module, e, mapping) ==
    CASE e.k = "Call" ->
           IF module.overflow \/ ~IsGenericExpr(module.holders, e) THEN [m |-> module, e |-> e]
           ELSE IF module.stack >= MaxStack
           THEN [m |-> [module EXCEPT !.overflow = TRUE], e |-> e]
           ELSE LET args == MonoExprs([module EXCEPT !.stack = @ + 1], e.args, mapping)
                    g    == args.m.holders[e.function]
                    ctx  == ForFnWithArgs(args.m.holders, g, args.es, mapping)
                    f    == MonoFunctionData(args.m, g, ctx)
                    made == Instantiate(f.m, e, args.es, f.f)
                IN IF f.m.overflow THEN [m |-> [f.m EXCEPT !.stack = module.stack], e |-> e]
                   ELSE [m |-> [made.m EXCEPT !.stack = module.stack], e |-> made.e]
      [] e.k = "VariableReference" ->
           IF ~IsGenericExpr(module.holders, e) THEN [m |-> module, e |-> e]
           ELSE [m |-> module, e |-> [e EXCEPT !.ty = MonoType(@, mapping)]]
      [] e.k = "MemberReference" ->
           IF ~IsGenericExpr(module.holders, e) THEN [m |-> module, e |-> e]
           ELSE LET base == MonoExpr(module, e.args[1], mapping)
                IN [m |-> base.m,
                    e |-> [e EXCEPT
                             !.args = <<base.e>>,
                             !.member = RefreshMember(base.m.holders, base.e, e)]]
      [] e.k = "Variable" ->
           IF ~IsGenericExpr(module.holders, e) THEN [m |-> module, e |-> e]
           ELSE LET init == MonoExpr(module, e.args[1], mapping)
                IN [m |-> init.m,
                    e |-> [e EXCEPT !.ty = MonoType(@, mapping), !.args = <<init.e>>]]
      [] e.k = "ImplicitConversion" ->
           LET expression == MonoExpr(module, e.args[1], mapping)
           IN [m |-> expression.m,
               e |-> MonomorphizeConversion(expression.m.holders, expression.e, e)]
      [] OTHER -> [m |-> module, e |-> e]

\* Monomorphize for ModuleData: the statements, then the variables
MonomorphizeModule(module) ==
    LET statements == MonoExprs(module, module.statements, <<>>)
        variables  == MonoExprs(statements.m, module.variables, <<>>)
    IN [variables.m EXCEPT !.statements = statements.es, !.variables = variables.es]

\* the functions of the explored modules, by handle:
\*   1  fn<T> id <x: T> -> T => x
\*   2  fn<T> wrap <x: T> -> T => id <x>
\*   3  fn<T> x of <p: Point<T>> -> T => p.x
\*   4  fn show <x: Integer> -> String
\*   5  fn<T, U> cast <x: T> -> U, whose U no argument determines
ModuleFunctions ==
    LET T == GenericType("T")
        U == GenericType("U")
    IN << FunctionData(<<T>>, <<Text("id"), Param("x", T)>>, T,
                       <<VariableReference("x", T)>>),
          FunctionData(<<T>>, <<Text("wrap"), Param("x", T)>>, T,
                       <<Call(1, <<VariableReference("x", T)>>)>>),
          FunctionData(<<T>>, <<Text("x"), Text("of"), Param("p", PointOf(T))>>, T,
                       <<MemberReference(VariableReference("p", PointOf(T)), 1,
                                         Member("x", T))>>),
          FunctionData(<<>>, <<Text("show"), Param("x", Integer)>>, String, <<>>),
          FunctionData(<<T, U>>, <<Text("cast"), Param("x", T)>>, U, <<>>),
          FunctionData(<<T>>, <<Text("borrow"), Param("x", RefTo(T))>>, T,
                       <<Call(1, <<ImplicitConversion("Dereference", T,
                                                      VariableReference("x", RefTo(T)))>>)>>),
          FunctionData(<<T>>, <<Text("lend"), Param("x", T)>>, T,
                       <<Call(6, <<ImplicitConversion("Reference", RefTo(T),
                                                      VariableReference("x", T))>>)>>) >>

\* the top-level statements the explored modules are made of
MonoRequests ==
    { Call(1, <<Literal(Integer)>>),
      Call(1, <<Literal(String)>>),
      Call(2, <<Literal(Integer)>>),
      Call(3, <<Literal(PointOf(Integer))>>),
      Call(4, <<Literal(Integer)>>),
      Call(5, <<Literal(Integer)>>),
      Call(7, <<Literal(Integer)>>),
      MemberReference(Literal(PointOf(Integer)), 1, Member("x", Integer)),
      Variable("y", Integer, Call(1, <<Literal(Integer)>>)) }

\* top-level statements of a module
MaxStatements == 3

\* runs of the monomorphizer over one module
MaxMonoRuns == 2

\* the lowered module with the given top-level statements
ModuleOf(statements) ==
    [statements |-> statements,
     variables |-> SelectSeq(statements, LAMBDA s : s.k = "Variable"),
     functions |-> [h \in DOMAIN ModuleFunctions |-> h],
     holders |-> ModuleFunctions,
     monomorphized_functions |-> <<>>,
     stack |-> 0, overflow |-> FALSE]

MonoInit ==
    /\ CtxIdle /\ LexIdle /\ LockIdle
    /\ LowIdle
    /\ IndexIdle
    /\ ConvIdle
    /\ DtorIdle
    /\ DiffIdle
    /\ monoSource \in { ss \in SeqsUpTo(MonoRequests, MaxStatements) :
                           Len(SelectSeq(ss, LAMBDA s : s.k = "Variable")) <= 1 }
    /\ monoModule = ModuleOf(monoSource)
    /\ monoPrev = monoModule
    /\ monoRuns = 0

\* module.monomorphize(context)
MonomorphizeAction ==
    /\ monoRuns < MaxMonoRuns
    /\ ~monoModule.overflow
    /\ monoModule' = MonomorphizeModule(monoModule)
    /\ monoPrev' = monoModule
    /\ monoRuns' = monoRuns + 1
    /\ UNCHANGED <<monoSource, notMono>>

MonoNext == MonomorphizeAction

SpecMono == MonoInit /\ [][MonoNext]_vars

\* generic functions whose bodies call generic functions in a cycle, by handle:
\*   8   fn<T> spin <x: T> -> T => spin <x>
\*   9   fn<T> ping <x: T> -> T => pong <x>
\*   10  fn<T> pong <x: T> -> T => ping <x>
RecursiveFunctions ==
    LET T == GenericType("T")
        fn(n, callee) == FunctionData(<<T>>, <<Text(n), Param("x", T)>>, T,
                                      <<Call(callee, <<VariableReference("x", T)>>)>>)
    IN << fn("spin", 8), fn("ping", 10), fn("pong", 9) >>

\* modules of at most two statements that may call the recursive functions
MonoRecInit ==
    /\ CtxIdle /\ LexIdle /\ LockIdle
    /\ LowIdle /\ IndexIdle /\ ConvIdle /\ DtorIdle /\ DiffIdle
    /\ monoSource \in
          { ss \in SeqsUpTo(MonoRequests \cup { Call(8, <<Literal(Integer)>>),
                                                Call(9, <<Literal(String)>>) }, 2) :
               Len(SelectSeq(ss, LAMBDA s : s.k = "Variable")) <= 1 }
    /\ monoModule = [ModuleOf(monoSource) EXCEPT
                       !.holders = @ \o RecursiveFunctions,
                       !.functions = [h \in 1..(Len(@) + Len(RecursiveFunctions)) |-> h]]
    /\ monoPrev = monoModule
    /\ monoRuns = 0

SpecMonoRec == MonoRecInit /\ [][MonoNext]_vars

C23_MonomorphizationTerminates == ~monoModule.overflow

\* the canonical names of the monomorphized instances, in list order
InstanceNames(module) ==
    [i \in DOMAIN module.monomorphized_functions |->
        build_name(module.holders[module.monomorphized_functions[i]].name_parts)]

\* C2: after monomorphization the monomorphized list holds at most one
\* instance per canonical name, each linked to its generic original
C2_OneInstancePerName ==
    monoRuns >= 1 =>
        /\ \A i, j \in DOMAIN InstanceNames(monoModule) :
               InstanceNames(monoModule)[i] = InstanceNames(monoModule)[j] => i = j
        /\ \A i \in DOMAIN monoModule.monomorphized_functions :
               monoModule.holders[monoModule.monomorphized_functions[i]].generic_version /= 0

\* C3: a second run of the monomorphizer leaves the module as the first run
\* left it: statements, variables, functions and monomorphized list
C3_MonomorphizeIdempotent ==
    monoRuns >= 2 => monoModule = monoPrev

\* a module with instances was monomorphized again
C3_Witness ==
    /\ monoRuns = 2
    /\ Len(monoModule.monomorphized_functions) >= 2
    /\ monoModule = monoPrev

RECURSIVE Deref(_, _)
\* an expression with every function handle replaced by the function behind it
Deref(holders, e) ==
    [e EXCEPT
       !.function = IF e.k = "Call"
                    THEN [holders[e.function] EXCEPT
                            !.body = [i \in DOMAIN @ |-> Deref(holders, @[i])]]
                    ELSE @,
       !.args = [i \in DOMAIN @ |-> Deref(holders, @[i])]]

\* the monomorphized instances of a module, by content
Instances(module) ==
    [i \in DOMAIN module.monomorphized_functions |->
        Deref(module.holders, Call(module.monomorphized_functions[i], <<>>)).function]

\* the sequence ss with the elements at i and j exchanged
Swap(ss, i, j) == [ss EXCEPT ![i] = ss[j], ![j] = ss[i]]

\* the same elements the same number of times
SameBag(s, t) ==
    /\ Len(s) = Len(t)
    /\ \A i \in DOMAIN s :
           Cardinality({ j \in DOMAIN s : s[j] = s[i] })
               = Cardinality({ j \in DOMAIN t : t[j] = s[i] })

\* C4: monomorphizing the module with any two top-level statements exchanged
\* gives the same monomorphized instances, the same resolved statements (at
\* their exchanged places) and the same variables
C4_MonomorphizeConfluent ==
    monoRuns = 1 =>
        \A i, j \in DOMAIN monoSource :
            LET other == MonomorphizeModule(ModuleOf(Swap(monoSource, i, j)))
            IN /\ SameBag(Instances(other), Instances(monoModule))
               /\ \A k \in DOMAIN monoSource :
                      Deref(other.holders, Swap(other.statements, i, j)[k])
                          = Deref(monoModule.holders, monoModule.statements[k])
               /\ [k \in DOMAIN other.variables |-> Deref(other.holders, other.variables[k])]
                      = [k \in DOMAIN monoModule.variables |->
                            Deref(monoModule.holders, monoModule.variables[k])]

\* two different specialization requests were processed, each giving instances
C4_Witness ==
    /\ monoRuns = 1
    /\ monoSource = <<Call(1, <<Literal(String)>>), Call(3, <<Literal(PointOf(Integer))>>)>>
    /\ InstanceNames(monoModule) = <<"id <:String>", "x of <:Point<Integer>>">>

RECURSIVE MemberRefsIn(_)
\* the member references in a sequence of expressions
MemberRefsIn(es) ==
    IF es = <<>> THEN {}
    ELSE (IF es[1].k = "MemberReference" THEN {es[1]} ELSE {})
             \cup MemberRefsIn(es[1].args) \cup MemberRefsIn(Tail(es))

\* C7: before and after monomorphization, every member reference of the
\* module and of its functions has an index within the members of the type of
\* its base, and the member there is the member it holds
C7_MemberIndexConsistent ==
    \A r \in MemberRefsIn(monoModule.statements \o monoModule.variables)
                \cup UNION { MemberRefsIn(monoModule.holders[h].body) :
                                h \in DOMAIN monoModule.holders } :
        /\ r.index \in DOMAIN Members(ExprTy(monoModule.holders, r.args[1]))
        /\ Members(ExprTy(monoModule.holders, r.args[1]))[r.index] = r.member

\* a monomorphized instance reads the member x: Integer of Point<Integer>
C7_Witness ==
    /\ monoRuns >= 1
    /\ \E h \in DOMAIN monoModule.holders :
           /\ monoModule.holders[h].generic_version /= 0
           /\ \E r \in MemberRefsIn(monoModule.holders[h].body) :
                  r.member = Member("x", Integer)

RECURSIVE NestedConversion(_)
\* some expression of es, or below it, is a conversion of a conversion
NestedConversion(es) ==
    /\ es /= <<>>
    /\ \/ es[1].k = "ImplicitConversion" /\ es[1].args[1].k = "ImplicitConversion"
       \/ NestedConversion(es[1].args)
       \/ NestedConversion(Tail(es))

DiffTypes ==
    LET base == { X, Y, GenericType("T"), GenericType("U") }
        one  == base \cup { ClassOf("Point", <<t>>) : t \in base }
    IN one \cup { ClassOf("Pair", <<t, u>>) : t \in one, u \in one }

DiffInit ==
    /\ CtxIdle /\ LexIdle /\ LockIdle
    /\ LowIdle
    /\ IndexIdle
    /\ ConvIdle
    /\ DtorIdle
    /\ MonoIdle
    /\ diffPattern \in DiffTypes
    /\ diffConcrete \in DiffTypes
    /\ diffResult = <<>>
    /\ diffPc = "ready"

\* pattern.diff(concrete): the entries collected into a HashMap, a later
\* entry replacing an earlier one with the same key
DiffAction ==
    /\ diffPc = "ready"
    /\ LET entries == Diff(diffPattern, diffConcrete)
           keys == { entries[i][1] : i \in DOMAIN entries }
       IN diffResult' =
              [k \in keys |->
                  entries[CHOOSE i \in DOMAIN entries :
                             /\ entries[i][1] = k
                             /\ \A j \in DOMAIN entries : entries[j][1] = k => j <= i][2]]
    /\ diffPc' = "done"
    /\ UNCHANGED <<diffPattern, diffConcrete, notDiff>>

SpecDiff == DiffInit /\ [][DiffAction]_vars

RECURSIVE GenericsOf(_)
\* the generic types that occur in a type
GenericsOf(t) ==
    IF t.k = "Generic" THEN {t}
    ELSE UNION { GenericsOf(t.a[i]) : i \in DOMAIN t.a }

\* C12: the substitution diff returns binds generics of the pattern only, and
\* applying it to the pattern gives the concrete type
C12_DiffIsUnifier ==
    diffPc = "done" =>
        /\ DOMAIN diffResult \subseteq GenericsOf(diffPattern)
        /\ MonoType(diffPattern,
                    [i \in 1..Cardinality(DOMAIN diffResult) |->
                        LET k == CHOOSE f \in [1..Cardinality(DOMAIN diffResult) -> DOMAIN diffResult] :
                                     \A a, b \in DOMAIN f : f[a] = f[b] => a = b
                        IN <<k[i], diffResult[k[i]]>>]) = diffConcrete

\* C13: diff of two classes with different basenames records nothing (it
\* fails), and every entry diff records has a generic as its key
C13_DiffEntriesOnlyForGenerics ==
    diffPc = "done" =>
        /\ (diffPattern.k = "Class" /\ diffConcrete.k = "Class"
                /\ diffPattern.n /= diffConcrete.n) => DOMAIN diffResult = {}
        /\ \A k \in DOMAIN diffResult : k.k = "Generic"

\* ---------------------------------------------------------------------------
\* Lowering of a module from AST to HIR (semantics/ast_to_hir.rs and
\* semantics/declare.rs).
\*
\* An AST statement is a record [k, name, mutable, implicit_return, ty, e]:
\*   k = "Variable"    `let [mut] name [: ty] = e`
\*   k = "Function"    `fn name [-> ty] => e` (implicit_return) or `fn name: e`
\*   k = "Assignment"  `name = e`
\*   k = "Expression"  `e`
\* ty = Unknown stands for a missing annotation.  An AST expression is a
\* record [k, name]: a "Literal" (an integer), a "Ref" to a variable or a
\* "Call" of the function `name`.
\* ---------------------------------------------------------------------------
AstStatement(k, n, mutable, implicit_return, ty, e) ==
    [k |-> k, name |-> n, mutable |-> mutable, implicit_return |-> implicit_return,
     ty |-> ty, e |-> e]

\* Lowering of a call without arguments: the function of that name in the
\* context, the call has its return type
LowerCall(module, e) ==
    IF ~HasKey(module.functions, e.name)
    THEN [err |-> "NoFunction", hir |-> Literal(Unknown), ty |-> Unknown]
    ELSE [err |-> "", hir |-> Call(IndexOfKey(module.functions, e.name), <<>>),
          ty |-> MapGet(module.functions, e.name).return_type]

\* Lowering of an expression: err is "" or the kind of the error, hir the
\* lowered expression and ty its type.  A variable is looked up with
\* find_variable.
LowerExpression(module, e) ==
    CASE e.k = "Literal" -> [err |-> "", hir |-> Literal(Integer), ty |-> Integer]
      [] e.k = "Ref" ->
           IF ~HasKey(module.variables, e.name)
           THEN [err |-> "UndefinedVariable", hir |-> Literal(Unknown), ty |-> Unknown]
           ELSE [err |-> "", ty |-> MapGet(module.variables, e.name).ty,
                 hir |-> VariableReference(e.name, MapGet(module.variables, e.name).ty)]
      [] OTHER -> LowerCall(module, e)

\* the outcome of lowering one statement: the context's module afterwards, the
\* error reported (at most one, a Result carries one error), whether lowering
\* panicked, and the lowered statement
Lowered(module, hir) == [module |-> module, err |-> <<>>, abort |-> FALSE, hir |-> hir]
Failed(module, kind, at) ==
    [module |-> module, err |-> <<[kind |-> kind, at |-> at]>>, abort |-> FALSE,
     hir |-> Literal(Unknown)]

\* VariableDeclaration: declare, then define.  declare registers the variable
\* with its annotated type or Unknown; define lowers the initializer,
\* monomorphizes it (is_generic of an Unknown type is unreachable!()), takes
\* the initializer's type when none was annotated, and converts.
VariableToHIR(module, s, at) ==
    LET data(ty, initializer) ==
            [name |-> s.name, ty |-> ty, mutable |-> s.mutable, initializer |-> initializer]
        declared == [module EXCEPT !.variables = IndexMapInsert(@, s.name, data(s.ty, <<>>))]
        initializer == LowerExpression(declared, s.e)
        ty == IF s.ty = Unknown THEN initializer.ty ELSE s.ty
    IN IF initializer.err /= "" THEN Failed(declared, initializer.err, <<at, "initializer">>)
       ELSE IF initializer.hir.k /= "Literal" /\ initializer.ty = Unknown
            THEN [Lowered(declared, initializer.hir) EXCEPT !.abort = TRUE]
       ELSE IF initializer.ty /= ty THEN Failed(declared, "NoConversion", <<at, "initializer">>)
       ELSE Lowered([declared EXCEPT !.variables =
                         IndexMapInsert(@, s.name, data(ty, <<initializer.hir>>))],
                    Variable(s.name, ty, initializer.hir))

\* FunctionToHIR with a define that deduces the return type but does not write
\* it to the declaration
FunctionToHIRKeepsUnknown(module, s, at) ==
    LET declared_type == IF s.ty /= Unknown THEN s.ty
                         ELSE IF s.implicit_return THEN Unknown ELSE Class("None")
        data(return_type, body) == FunctionData(<<>>, <<Text(s.name)>>, return_type, body)
        with(m, return_type, body) ==
            [m EXCEPT !.functions = IndexMapInsert(@, s.name, data(return_type, body))]
        declared == with(module, declared_type, <<>>)
        expr == LowerExpression(declared, s.e)
        return == Expr("Return", 0, <<expr.hir>>, "", Unknown, 0, Member("", Unknown))
    IN IF expr.err /= "" THEN Failed(declared, expr.err, <<at, "body">>)
       ELSE IF ~s.implicit_return
            THEN Lowered(with(declared, declared_type, <<expr.hir>>), Literal(Class("None")))
       ELSE IF declared_type = Unknown /\ expr.ty = Unknown
            THEN Failed(declared, "CantDeduceReturnType", <<at, "name">>)
       ELSE Lowered(with(declared, declared_type, <<return>>), Literal(Class("None")))

\* FunctionDeclaration: declare, then define.  declare registers the function
\* with its annotated return type, Unknown for an implicit return without
\* annotation, None otherwise; define lowers the body and, for an implicit
\* return, deduces the return type from the expression and replaces the body
\* by one implicit return.  (No instance of the function exists yet, the
\* update of monomorphized_functions has nothing to do.)
FunctionToHIR(module, s, at) ==
    LET declared_type == IF s.ty /= Unknown THEN s.ty
                         ELSE IF s.implicit_return THEN Unknown ELSE Class("None")
        data(return_type, body) == FunctionData(<<>>, <<Text(s.name)>>, return_type, body)
        with(m, return_type, body) ==
            [m EXCEPT !.functions = IndexMapInsert(@, s.name, data(return_type, body))]
        declared == with(module, declared_type, <<>>)
        expr == LowerExpression(declared, s.e)
        return_type == IF declared_type = Unknown THEN expr.ty ELSE declared_type
        return == Expr("Return", 0, <<expr.hir>>, "", Unknown, 0, Member("", Unknown))
    IN IF expr.err /= "" THEN Failed(declared, expr.err, <<at, "body">>)
       ELSE IF ~s.implicit_return
            THEN Lowered(with(declared, declared_type, <<expr.hir>>), Literal(Class("None")))
       ELSE IF declared_type = Unknown /\ expr.ty = Unknown
            THEN Failed(declared, "CantDeduceReturnType", <<at, "name">>)
       ELSE IF expr.ty /= return_type
            THEN Failed(with(declared, return_type, <<>>), "ReturnTypeMismatch", <<at, "body">>)
       ELSE Lowered(with(declared, return_type, <<return>>), Literal(Class("None")))

\* AssignmentToHIR lowering the value before it checks the target's mutability
AssignmentToHIRValueFirst(module, s, at) ==
    LET target == LowerExpression(module, [k |-> "Ref", name |-> s.name])
        value  == LowerExpression(module, s.e)
    IN IF target.err /= "" THEN Failed(module, target.err, <<at, "target">>)
       ELSE IF value.err /= "" THEN Failed(module, value.err, <<at, "value">>)
       ELSE IF ~MapGet(module.variables, s.name).mutable
            THEN Failed(module, "AssignmentToImmutable", <<at, "target">>)
       ELSE IF target.ty /= value.ty THEN Failed(module, "NoConversion", <<at, "value">>)
       ELSE Lowered(module, Expr("Assignment", 0, <<target.hir, value.hir>>, "", Unknown, 0,
                                 Member("", Unknown)))

\* Assignment: the target is lowered and checked for mutability before the
\* value is lowered
AssignmentToHIR(module, s, at) ==
    LET target == LowerExpression(module, [k |-> "Ref", name |-> s.name])
        value  == LowerExpression(module, s.e)
    IN IF target.err /= "" THEN Failed(module, target.err, <<at, "target">>)
       ELSE IF ~MapGet(module.variables, s.name).mutable
            THEN Failed(module, "AssignmentToImmutable", <<at, "target">>)
       ELSE IF value.err /= "" THEN Failed(module, value.err, <<at, "value">>)
       ELSE IF target.ty /= value.ty THEN Failed(module, "NoConversion", <<at, "value">>)
       ELSE Lowered(module, Expr("Assignment", 0, <<target.hir, value.hir>>, "", Unknown, 0,
                                 Member("", Unknown)))

\* Statement: lowered by its kind and, on success, pushed to the module
LowerStatement(module, s, at) ==
    LET expr == LowerExpression(module, s.e)
        r == CASE s.k = "Variable"   -> VariableToHIR(module, s, at)
               [] s.k = "Function"   -> FunctionToHIR(module, s, at)
               [] s.k = "Assignment" -> AssignmentToHIR(module, s, at)
               [] OTHER -> IF expr.err /= "" THEN Failed(module, expr.err, <<at, "expression">>)
                           ELSE Lowered(module, expr.hir)
    IN IF r.err /= <<>> \/ r.abort THEN r
       ELSE [r EXCEPT !.module.statements = Append(@, r.hir)]

\* ast::Module: the statements are lowered in order, the first error ends
\* lowering (`?`)
RECURSIVE LowerStatements(_, _, _)
LowerStatements(module, statements, at) ==
    IF statements = <<>> THEN Lowered(module, Literal(Class("None")))
    ELSE LET r == LowerStatement(module, Head(statements), at)
         IN IF r.err /= <<>> \/ r.abort THEN r
            ELSE LowerStatements(r.module, Tail(statements), at + 1)

\* the statements modules are made of; `u` is declared nowhere
AstStatements ==
    LET lit == [k |-> "Literal", name |-> ""]
        ref(n) == [k |-> "Ref", name |-> n]
        call(n) == [k |-> "Call", name |-> n]
        let(n, e) == AstStatement("Variable", n, FALSE, FALSE, Unknown, e)
        fn(n, e) == AstStatement("Function", n, FALSE, TRUE, Unknown, e)
    IN { let("x", lit), let("y", ref("x")), let("s", ref("s")), let("z", ref("u")),
         AstStatement("Variable", "m", TRUE, FALSE, Integer, lit),
         fn("f", ref("x")), fn("g", call("g")), fn("h", ref("u")), fn("k", lit),
         AstStatement("Function", "p", FALSE, FALSE, Unknown, call("k")),
         AstStatement("Assignment", "x", FALSE, FALSE, Unknown, lit),
         AstStatement("Assignment", "x", FALSE, FALSE, Unknown, ref("u")),
         AstStatement("Assignment", "m", FALSE, FALSE, Unknown, ref("x")),
         AstStatement("Assignment", "m", FALSE, FALSE, Unknown, ref("u")),
         AstStatement("Expression", "", FALSE, FALSE, Unknown, call("f")),
         AstStatement("Expression", "", FALSE, FALSE, Unknown, ref("u")) }

MaxModuleLen == 3

LowInit ==
    /\ CtxIdle /\ LexIdle /\ LockIdle
    /\ IndexIdle /\ ConvIdle /\ DtorIdle /\ MonoIdle /\ DiffIdle
    /\ lowSource \in UNION { [1..n -> AstStatements] : n \in 0..MaxModuleLen }
    /\ lowModule = [variables |-> <<>>, functions |-> <<>>, statements |-> <<>>]
    /\ lowErrors = <<>>
    /\ lowResult = "none"

\* lower_to_hir of the module
LowerAction ==
    /\ lowResult = "none"
    /\ LET r == LowerStatements(lowModule, lowSource, 1)
       IN /\ lowModule' = r.module
          /\ lowErrors' = r.err
          /\ lowResult' = IF r.abort THEN "abort" ELSE IF r.err /= <<>> THEN "err" ELSE "ok"
    /\ UNCHANGED <<lowSource, notLow>>

SpecLow == LowInit /\ [][LowerAction]_vars

\* C14: once lowering of a module has finished, no variable type, function
\* return type or expression type of the module is Unknown, and lowering never
\* hands an Unknown type to monomorphization (which would panic).
C14_NoUnknownAfterLowering ==
    /\ lowResult /= "abort"
    /\ lowResult = "ok" =>
          /\ \A i \in DOMAIN lowModule.variables :
                /\ lowModule.variables[i].val.ty /= Unknown
                /\ \A j \in DOMAIN lowModule.variables[i].val.initializer :
                      ExprTy([f \in DOMAIN lowModule.functions |-> lowModule.functions[f].val],
                             lowModule.variables[i].val.initializer[j]) /= Unknown
          /\ \A i \in DOMAIN lowModule.functions :
                lowModule.functions[i].val.return_type /= Unknown

\* the outcome of lowering the statements before the i-th of the module
LoweredBefore(i) ==
    LowerStatements([variables |-> <<>>, functions |-> <<>>, statements |-> <<>>],
                    SubSeq(lowSource, 1, i - 1), 1)

\* C15: whether lowering succeeds does not depend on the order of the
\* top-level declarations: exchanging two statements of the module does not
\* change success into failure or failure into success.
C15_LoweringOrderIndependent ==
    lowResult \in {"ok", "err"} =>
        \A i, j \in DOMAIN lowSource :
            LET swapped == LowerStatements([variables |-> <<>>, functions |-> <<>>,
                                            statements |-> <<>>], Swap(lowSource, i, j), 1)
            IN (lowResult = "ok") <=> (swapped.err = <<>> /\ ~swapped.abort)

\* C16: defining a function with an implicit return and no return type sets
\* its return type to the type of the expression and makes its body one
\* implicit return of the expression; when the expression's type is Unknown
\* (the function calls itself) the definition fails with CantDeduceReturnType.
\* Stated for the last statement of the module.
C16_ImplicitReturnDeduced ==
    LET i == Len(lowSource)
        s == lowSource[i]
        expr == LowerExpression(LoweredBefore(i).module, s.e)
        recursive == s.e.k = "Call" /\ s.e.name = s.name
    IN (/\ lowResult /= "none" /\ i > 0
        /\ s.k = "Function" /\ s.implicit_return /\ s.ty = Unknown
        /\ LoweredBefore(i).err = <<>> /\ ~LoweredBefore(i).abort) =>
          /\ recursive =>
                lowErrors = <<[kind |-> "CantDeduceReturnType", at |-> <<i, "name">>]>>
          /\ (~recursive /\ expr.err = "") =>
                /\ lowResult = "ok"
                /\ MapGet(lowModule.functions, s.name).return_type = expr.ty
                /\ expr.ty /= Unknown
                /\ Len(MapGet(lowModule.functions, s.name).body) = 1
                /\ MapGet(lowModule.functions, s.name).body[1].k = "Return"
                /\ MapGet(lowModule.functions, s.name).body[1].args = <<expr.hir>>

C16_Witness ==
    /\ lowResult = "ok"
    /\ Len(lowSource) = 2
    /\ lowSource[2].k = "Function" /\ lowSource[2].implicit_return
    /\ lowSource[2].e = [k |-> "Ref", name |-> "x"]
    /\ MapGet(lowModule.functions, lowSource[2].name).return_type = Integer

\* C17: the reported errors include an error for every top-level statement
\* that fails to lower: every statement that uses the undeclared name `u` has
\* an error of its own.
C17_ErrorForEveryFailingStatement ==
    lowResult \in {"ok", "err"} =>
        \A i \in DOMAIN lowSource :
            lowSource[i].e = [k |-> "Ref", name |-> "u"] =>
                \E e \in DOMAIN lowErrors : lowErrors[e].at[1] = i

\* C18: an assignment whose target is an immutable variable reports exactly
\* one error, AssignmentToImmutable, whatever the value expression is.
C18_AssignmentToImmutableOnly ==
    \A i \in DOMAIN lowSource :
        (/\ lowResult /= "none"
         /\ lowSource[i].k = "Assignment"
         /\ LoweredBefore(i).err = <<>> /\ ~LoweredBefore(i).abort
         /\ HasKey(LoweredBefore(i).module.variables, lowSource[i].name)
         /\ ~MapGet(LoweredBefore(i).module.variables, lowSource[i].name).mutable) =>
            lowErrors = <<[kind |-> "AssignmentToImmutable", at |-> <<i, "target">>]>>

C18_Witness ==
    /\ Len(lowSource) = 2
    /\ lowSource[1].k = "Variable" /\ lowSource[1].name = "x" /\ ~lowSource[1].mutable
    /\ lowSource[2].k = "Assignment" /\ lowSource[2].name = "x"
    /\ lowSource[2].e = [k |-> "Ref", name |-> "u"]
    /\ lowErrors = <<[kind |-> "AssignmentToImmutable", at |-> <<2, "target">>]>>

\* C19: an implicit-return function whose body expression is an undefined
\* name reports two errors, the undefined name and CantDeduceReturnType, both
\* at the function's name.
C19_TwoErrorsForUndefinedBody ==
    \A i \in DOMAIN lowSource :
        (/\ lowResult /= "none"
         /\ lowSource[i].k = "Function" /\ lowSource[i].implicit_return
         /\ lowSource[i].e = [k |-> "Ref", name |-> "u"]
         /\ LoweredBefore(i).err = <<>> /\ ~LoweredBefore(i).abort) =>
            /\ Len(lowErrors) = 2
            /\ \E e \in DOMAIN lowErrors : lowErrors[e] = [kind |-> "UndefinedVariable", at |-> <<i, "name">>]
            /\ \E e \in DOMAIN lowErrors : lowErrors[e] = [kind |-> "CantDeduceReturnType", at |-> <<i, "name">>]

\* ---------------------------------------------------------------------
\* Variable lookup in a function context (semantics/contexts/function.rs)
\* ---------------------------------------------------------------------

\* most locals one function context holds
MaxLocals == 3

\* a variable or parameter declaration: its name, where it was declared and
\* its position among the declarations of that place
Decl(n, kind, i) == [name |-> n, kind |-> kind, n |-> i]

\* FunctionContext::function's parameters, in declaration order
CtxParameters == <<Decl("p", "parameter", 1), Decl("x", "parameter", 2)>>

\* the variables FunctionContext::parent finds
CtxParentVariables == <<Decl("g", "parent", 1), Decl("x", "parent", 2), Decl("p", "parent", 3)>>

\* Iterator::find: the first element with the name, <<>> for None
IterFind(s, n) ==
    LET hits == { i \in DOMAIN s : s[i].name = n }
    IN IF hits = {} THEN <<>>
       ELSE <<s[CHOOSE i \in hits : \A j \in hits : i <= j]>>

\* FunctionContext::find_variable_here: the locals, or else the parameters
find_variable_here(variables, n) ==
    IF IterFind(variables, n) /= <<>> THEN IterFind(variables, n)
    ELSE IterFind(CtxParameters, n)

\* FindDeclaration::find_variable: this context, or else its parent
find_variable(variables, n) ==
    IF find_variable_here(variables, n) /= <<>> THEN find_variable_here(variables, n)
    ELSE IterFind(CtxParentVariables, n)

\* FunctionContext::add_variable
add_variable(variables, v) == Append(variables, v)

CtxInit ==
    /\ IndexIdle /\ ConvIdle /\ DtorIdle /\ MonoIdle /\ DiffIdle /\ LowIdle
    /\ LexIdle /\ LockIdle
    /\ CtxIdle

\* a variable declaration in the body is lowered and added to the context
AddVariableAction ==
    /\ Len(ctxVariables) < MaxLocals
    /\ \E n \in {"x", "y", "p"} :
        ctxVariables' = add_variable(ctxVariables, Decl(n, "local", Len(ctxVariables) + 1))
    /\ UNCHANGED <<ctxName, ctxFound, notCtx>>

\* a name in the body is looked up
FindVariableAction ==
    /\ \E n \in {"x", "y", "p", "g", "u"} :
        /\ ctxName' = n
        /\ ctxFound' = find_variable(ctxVariables, n)
    /\ UNCHANGED <<ctxVariables, notCtx>>

CtxNext == AddVariableAction \/ FindVariableAction

SpecCtx == CtxInit /\ [][CtxNext]_vars

\* the last local with the name, <<>> when no local has it
LastLocal(variables, n) ==
    LET hits == { i \in DOMAIN variables : variables[i].name = n }
    IN IF hits = {} THEN <<>>
       ELSE <<variables[CHOOSE i \in hits : \A j \in hits : j <= i]>>

\* C28: a lookup by name returns the most recently declared local with that
\* name, which shadows earlier locals, the parameters and the parent's
\* variables; without a local it returns the parameter of that name, and
\* without a parameter the result of the parent context.
C28_LookupFindsLatestLocal ==
    [][(ctxVariables' = ctxVariables) =>
        ctxFound' =
            IF LastLocal(ctxVariables, ctxName') /= <<>> THEN LastLocal(ctxVariables, ctxName')
            ELSE IF IterFind(CtxParameters, ctxName') /= <<>> THEN IterFind(CtxParameters, ctxName')
            ELSE IterFind(CtxParentVariables, ctxName')]_vars

\* ---------------------------------------------------------------------
\* The lexers (syntax/lexer.rs)
\* ---------------------------------------------------------------------

\* longest source text of a FullSourceLexer, in characters
MaxSourceLen == 3

\* most lines the input of an InteractiveLexer delivers
MaxLines == 2

\* the characters of the texts; each one is a token of its own
LexChars == {"a", "1", "+", "\n", "?"}

\* Token::lexer's rule for one character; "?" matches no rule
TokenOf(c) ==
    CASE c = "a" -> "Id"
      [] c = "1" -> "Integer"
      [] c = "+" -> "Operator(Infix)"
      [] c = "\n" -> "Newline"
      [] OTHER -> "Error"

\* logos::Lexer::lex from the end of the last token `lg`: the token, "None"
\* at the end of the text, and the span of what was lexed
Lex(source, lg) ==
    IF lg[2] >= Len(source) THEN [t |-> "None", lg |-> <<lg[2], lg[2]>>]
    ELSE [t |-> TokenOf(source[lg[2] + 1]), lg |-> <<lg[2], lg[2] + 1>>]

\* `while peeked == Some(Token::Newline) { peeked = lex() }`
RECURSIVE SkipNewlines(_, _)
SkipNewlines(source, r) ==
    IF r.t = "Newline" THEN SkipNewlines(source, Lex(source, r.lg)) ELSE r

\* FullSourceLexer::new
NewFullSourceLexer(source) ==
    [kind |-> "full", source |-> source, lines |-> <<>>, inner |-> <<0, 0>>,
     span |-> <<0, 0>>, token |-> "None", peeked |-> "None", indentation |-> 0]

\* InteractiveLexer::new; `lines` is what get_line is going to return
NewInteractiveLexer(lines) ==
    [kind |-> "interactive", source |-> <<>>, lines |-> lines, inner |-> <<0, 0>>,
     span |-> <<0, 0>>, token |-> "None", peeked |-> "None", indentation |-> 0]

\* InteractiveLexer::request_line; get_line returns "" when the input ended
request_line(lx) ==
    IF lx.lines = <<>> THEN lx
    ELSE [lx EXCEPT !.source = @ \o Head(lx.lines), !.lines = Tail(@)]

\* InteractiveLexer::maybe_request_line
maybe_request_line(lx) ==
    IF lx.span[2] = Len(lx.source) THEN request_line(lx) ELSE lx

\* InteractiveLexer::peek_impl on the lexer that InteractiveLexer::lexer builds
peek_impl(lx) ==
    LET peeked == Lex(lx.source, <<lx.span[2], lx.span[2]>>)
    IN IF lx.token \in {"None", "Newline"} THEN SkipNewlines(lx.source, peeked) ELSE peeked

\* Lexer::peek of both lexers: the lexer afterwards and the token
peek(lx) ==
    IF lx.kind = "full" THEN
        IF lx.peeked = "None" THEN
            LET first == Lex(lx.source, lx.inner)
                peeked == IF lx.token = "Newline" THEN SkipNewlines(lx.source, first) ELSE first
            IN [lx |-> [lx EXCEPT !.peeked = peeked.t, !.inner = peeked.lg], r |-> peeked.t]
        ELSE [lx |-> lx, r |-> lx.peeked]
    ELSE
        IF peek_impl(lx).t = "None" THEN
            [lx |-> request_line(lx), r |-> peek_impl(request_line(lx)).t]
        ELSE [lx |-> lx, r |-> peek_impl(lx).t]

\* Lexer::peek_span of both lexers
peek_span(lx) ==
    IF lx.kind = "full" THEN [lx |-> peek(lx).lx, r |-> peek(lx).lx.inner]
    ELSE [lx |-> maybe_request_line(lx), r |-> peek_impl(maybe_request_line(lx)).lg]

\* Lexer::peek_slice of both lexers
peek_slice(lx) ==
    LET at == peek_span(lx)
    IN [lx |-> at.lx, r |-> SubSeq(at.lx.source, at.r[1] + 1, at.r[2])]

\* Iterator::next of both lexers
next(lx) ==
    IF lx.kind = "full" THEN
        LET p == peek(lx).lx
        IN [lx |-> [p EXCEPT !.indentation = IF p.peeked \in {"None", "Newline"} THEN 0 ELSE @,
                             !.span = p.inner, !.token = p.peeked, !.peeked = "None"],
            r |-> p.peeked]
    ELSE
        LET l == maybe_request_line(lx)
            peeked == peek_impl(l)
        IN [lx |-> [l EXCEPT !.span = peeked.lg, !.token = peeked.t,
                             !.indentation = IF peeked.t \in {"None", "Newline"} THEN 0 ELSE @],
            r |-> peeked.t]

\* Result::Ok and Result::Err
Ok(v) == [ok |-> TRUE, v |-> v]
Err(kind, got, at) == [ok |-> FALSE, v |-> <<kind, got, at>>]

\* Lexer::string_with_offset: the slice of the current token and its start
string_with_offset(lx) == <<SubSeq(lx.source, lx.span[1] + 1, lx.span[2]), lx.span[1]>>

\* Lexer::try_match_one_of
try_match_one_of(lx, tokens) ==
    LET token == peek(lx)
        at == peek_span(token.lx)
    IN IF token.r = "None" THEN [lx |-> token.lx, r |-> Err("MissingToken", "None", token.lx.span[2])]
       ELSE IF token.r \notin tokens THEN
           IF token.r = "Error" THEN [lx |-> at.lx, r |-> Err("LexerError", "Error", at.r)]
           ELSE [lx |-> at.lx, r |-> Err("UnexpectedToken", token.r, at.r)]
       ELSE [lx |-> token.lx, r |-> Ok(token.r)]

\* Lexer::try_match
try_match(lx, token) ==
    LET m == try_match_one_of(lx, {token})
        slice == peek_slice(m.lx)
        at == peek_span(slice.lx)
    IN IF m.r.ok THEN [lx |-> at.lx, r |-> Ok(<<slice.r, at.r[1]>>)] ELSE m

\* Lexer::consume_one_of
consume_one_of(lx, tokens) ==
    LET token == try_match_one_of(lx, tokens)
    IN IF token.r.ok THEN [lx |-> next(token.lx).lx, r |-> token.r] ELSE token

\* Lexer::consume
consume(lx, token) ==
    LET c == consume_one_of(lx, {token})
    IN IF c.r.ok THEN [lx |-> c.lx, r |-> Ok(string_with_offset(c.lx))] ELSE c

\* the kinds consume_operator accepts
OperatorTokens ==
    {"Operator(Prefix)", "Operator(Infix)", "Operator(Postfix)", "Less", "Greater", "Star", "Ampersand"}

\* Lexer::consume_operator
consume_operator(lx) ==
    LET c == consume_one_of(lx, OperatorTokens)
    IN IF c.r.ok THEN [lx |-> c.lx, r |-> Ok(string_with_offset(c.lx))] ELSE c

\* the lines get_line can return
LexLines == {<<"\n">>, <<"a">>, <<"a", "\n">>, <<"1", "\n">>, <<"+", "?">>}

\* the token kinds a caller asks for
LexTokens == {"Id", "Integer", "Newline"}

\* the token sets a caller asks for
LexTokenSets == {{"Id", "Integer"}, {"Newline", "Operator(Infix)"}}

LexInit ==
    /\ IndexIdle /\ ConvIdle /\ DtorIdle /\ MonoIdle /\ DiffIdle /\ LowIdle
    /\ CtxIdle /\ LockIdle
    /\ lexer \in { NewFullSourceLexer(src) : src \in UNION { [1..n -> LexChars] : n \in 0..MaxSourceLen } }
            \cup { NewInteractiveLexer(ls) : ls \in UNION { [1..n -> LexLines] : n \in 0..MaxLines } }
    /\ lexResult = [op |-> "none", r |-> "None"]

\* one call on the lexer: the lexer afterwards and what the call returned
LexCall(op, res) ==
    /\ lexer' = res.lx
    /\ lexResult' = [op |-> op, r |-> res.r]
    /\ UNCHANGED notLex

PeekAction ==
    /\ lexer.kind /= "none"
    /\ LexCall("peek", peek(lexer))
PeekSpanAction ==
    /\ lexer.kind /= "none"
    /\ LexCall("peek_span", peek_span(lexer))
PeekSliceAction ==
    /\ lexer.kind /= "none"
    /\ LexCall("peek_slice", peek_slice(lexer))
TryMatchAction ==
    /\ lexer.kind /= "none"
    /\ \E t \in LexTokens : LexCall("try_match", try_match(lexer, t))
TryMatchOneOfAction ==
    /\ lexer.kind /= "none"
    /\ \E ts \in LexTokenSets : LexCall("try_match_one_of", try_match_one_of(lexer, ts))
NextTokenAction ==
    /\ lexer.kind /= "none"
    /\ LexCall("next", next(lexer))
ConsumeAction ==
    /\ lexer.kind /= "none"
    /\ \E t \in LexTokens : LexCall("consume", consume(lexer, t))
ConsumeOneOfAction ==
    /\ lexer.kind /= "none"
    /\ \E ts \in LexTokenSets : LexCall("consume_one_of", consume_one_of(lexer, ts))
ConsumeOperatorAction ==
    /\ lexer.kind /= "none"
    /\ LexCall("consume_operator", consume_operator(lexer))

LexNext ==
    \/ PeekAction \/ PeekSpanAction \/ PeekSliceAction
    \/ TryMatchAction \/ TryMatchOneOfAction
    \/ NextTokenAction
    \/ ConsumeAction \/ ConsumeOneOfAction \/ ConsumeOperatorAction

SpecLex == LexInit /\ [][LexNext]_vars

\* a call leaves the current token and span() alone, and the same call on
\* the lexer it leaves behind returns the same result
LooksAhead(lx, first, second) ==
    /\ first.lx.token = lx.token
    /\ first.lx.span = lx.span
    /\ second.r = first.r

\* C21: peek, peek_span, peek_slice, try_match and try_match_one_of never
\* advance the lexer: in every lexer state the current token and span() are
\* the same after the call, and repeating the call returns the same result.
C21_LookAheadDoesNotAdvance ==
    /\ LooksAhead(lexer, peek(lexer), peek(peek(lexer).lx))
    /\ LooksAhead(lexer, peek_span(lexer), peek_span(peek_span(lexer).lx))
    /\ LooksAhead(lexer, peek_slice(lexer), peek_slice(peek_slice(lexer).lx))
    /\ \A t \in LexTokens :
        LooksAhead(lexer, try_match(lexer, t), try_match(try_match(lexer, t).lx, t))
    /\ \A ts \in LexTokenSets :
        LooksAhead(lexer, try_match_one_of(lexer, ts), try_match_one_of(try_match_one_of(lexer, ts).lx, ts))

\* a consuming call that fails leaves the current token, the span and the
\* next peeked token as they were; one that succeeds makes the token that
\* was peeked the current token, one token further, and returns it
Consumes(lx, tokens, c) ==
    IF c.r.ok THEN
        /\ peek(lx).r \in tokens
        /\ c.lx.token = peek(lx).r
        /\ c.lx.span = peek_span(peek(lx).lx).r
        /\ c.lx.span[1] >= lx.span[2]
    ELSE
        /\ peek(lx).r \notin tokens
        /\ c.lx.token = lx.token
        /\ c.lx.span = lx.span
        /\ peek(c.lx).r = peek(lx).r

\* C22: consume, consume_one_of and consume_operator do not lex on failure:
\* they return an error and leave the current token, the span and the next
\* peeked token unchanged; on success they advance the lexer by exactly one
\* token and return it.
C22_ConsumeDoesNotLexOnFailure ==
    /\ \A t \in LexTokens :
        /\ Consumes(lexer, {t}, consume(lexer, t))
        /\ consume(lexer, t).r.ok => consume(lexer, t).r.v = string_with_offset(consume(lexer, t).lx)
    /\ \A ts \in LexTokenSets :
        /\ Consumes(lexer, ts, consume_one_of(lexer, ts))
        /\ consume_one_of(lexer, ts).r.ok => consume_one_of(lexer, ts).r.v = consume_one_of(lexer, ts).lx.token
    /\ Consumes(lexer, OperatorTokens, consume_operator(lexer))

\* ---------------------------------------------------------------------
\* The locks taken while a function is defined (semantics/declare.rs) and
\* while destructors are inserted into it (semantics/destructors.rs)
\* ---------------------------------------------------------------------

\* most calls in the body of the function that is defined
MaxCalls == 2

\* the functions: the generic declaration that is defined, its earlier
\* monomorphized instance, another generic function, a function that is not
\* generic
LockFunctions == {"declaration", "instance", "generic", "plain"}

\* one operation on the RwLock of function f: "read" and "write" take the
\* lock, "unread" and "unwrite" drop the guard
LockOp(op, f) == [op |-> op, on |-> f]

\* a guard that lives for one statement: taken, then dropped
Locked(op, f) == <<LockOp(op, f), LockOp(IF op = "read" THEN "unread" ELSE "unwrite", f)>>

\* Generic::is_generic of a function of the input
LockIsGeneric(input, f) ==
    CASE f = "plain" -> FALSE
      [] f = "instance" -> input.generic
      [] OTHER -> TRUE

\* impl Monomorphize for Call, on a call of function f: the three reads of
\* self.function; the clone that is monomorphized in between has no lock
CallMonomorphizeLocks(input, f) ==
    IF ~LockIsGeneric(input, f) THEN <<>>
    ELSE Locked("read", f) \o Locked("read", f) \o Locked("read", f)

\* Vec<Statement>::monomorphize over the calls of a body
RECURSIVE BodyMonomorphizeLocks(_, _)
BodyMonomorphizeLocks(input, body) ==
    IF body = <<>> THEN <<>>
    ELSE CallMonomorphizeLocks(input, Head(body)) \o BodyMonomorphizeLocks(input, Tail(body))

\* impl Monomorphize for FunctionData, on the data of function f with the
\* body of the declaration; no declared function has the instance's name
FunctionMonomorphizeLocks(input, f) ==
    IF ~LockIsGeneric(input, f) THEN <<>>
    ELSE BodyMonomorphizeLocks(input, input.body)

\* the loop of define over the instances of the declaration
RECURSIVE UpdateInstancesLocks(_, _)
UpdateInstancesLocks(input, instances) ==
    IF instances = <<>> THEN <<>>
    ELSE LET f == Head(instances)
         IN Locked("write", f)
            \o <<LockOp("read", "declaration"), LockOp("read", f),
                 LockOp("unread", f), LockOp("unread", "declaration")>>
            \o <<LockOp("write", f)>> \o FunctionMonomorphizeLocks(input, f) \o <<LockOp("unwrite", f)>>
            \o UpdateInstancesLocks(input, Tail(instances))

\* the filter of define over monomorphized_functions
RECURSIVE FilterInstancesLocks(_)
FilterInstancesLocks(instances) ==
    IF instances = <<>> THEN <<>>
    ELSE Locked("read", Head(instances)) \o FilterInstancesLocks(Tail(instances))

\* ast::FunctionDeclaration::define from the assignment of the body on
DefineLocks(input) ==
    Locked("write", "declaration")
    \o FilterInstancesLocks(input.instances)
    \o UpdateInstancesLocks(input, input.instances)

\* impl InsertDestructors for Function: with_destructors runs under the read
\* guard, the body is assigned under the write guard
InsertDestructorsLocks(f) == Locked("read", f) \o Locked("write", f)

\* guards on f that are held after the operations of t before position i
Held(t, i, op, f) ==
    Cardinality({ j \in 1..(i - 1) : t[j] = LockOp(op, f) })
        - Cardinality({ j \in 1..(i - 1) : t[j] = LockOp(IF op = "read" THEN "unread" ELSE "unwrite", f) })

\* operation i of t takes a lock that this thread cannot get: the function is
\* write-locked already, or a write is asked for under a read guard
Blocks(t, i) ==
    \/ t[i].op \in {"read", "write"} /\ Held(t, i, "write", t[i].on) > 0
    \/ t[i].op = "write" /\ Held(t, i, "read", t[i].on) > 0

\* the operations that run: all of them, or those up to the first one that
\* cannot get its lock
Executed(t) ==
    LET stuck == { i \in DOMAIN t : Blocks(t, i) }
    IN IF stuck = {} THEN t
       ELSE SubSeq(t, 1, CHOOSE i \in stuck : \A j \in stuck : i <= j)

\* the bodies a declaration can have, as the functions its calls resolve to
LockBodies == UNION { [1..n -> LockFunctions] : n \in 0..MaxCalls }

LockInit ==
    /\ IndexIdle /\ ConvIdle /\ DtorIdle /\ MonoIdle /\ DiffIdle /\ LowIdle
    /\ CtxIdle /\ LexIdle
    /\ lockInput \in { in \in [body : LockBodies, instances : {<<>>, <<"instance">>}, generic : BOOLEAN] :
                        /\ (\E i \in DOMAIN in.body : in.body[i] = "instance") => in.instances /= <<>>
                        /\ in.generic => in.instances /= <<>> }
    /\ lockTrace = <<>>
    /\ lockPc = "ready"

\* define assigns the body and updates the instances; a lock that cannot be
\* taken panics or blocks for ever (std::sync::RwLock leaves it open)
DefineLockAction ==
    /\ lockPc = "ready"
    /\ lockTrace' = Executed(DefineLocks(lockInput))
    /\ IF lockTrace' = DefineLocks(lockInput) THEN lockPc' = "defined"
       ELSE lockPc' \in {"deadlock", "panic"}
    /\ UNCHANGED <<lockInput, notLock>>

\* destructors are inserted into the defined function
InsertDestructorsLockAction ==
    /\ lockPc = "defined"
    /\ lockTrace' = lockTrace \o Executed(InsertDestructorsLocks("declaration"))
    /\ lockPc' = "done"
    /\ UNCHANGED <<lockInput, notLock>>

LockNext == DefineLockAction \/ InsertDestructorsLockAction

SpecLock == LockInit /\ [][LockNext]_vars

\* C24: no operation that runs under a held write lock locks that same
\* function again: while the function is defined and its instances are
\* updated, and while destructors are inserted, no lock is asked for on a
\* function whose write guard is held.
C24_NoLockUnderWriteLock ==
    \A i \in DOMAIN lockTrace :
        lockTrace[i].op \in {"read", "write"} => Held(lockTrace, i, "write", lockTrace[i].on) = 0

====
